---- MODULE Spec2Model ----
(***************************************************************************)
(* SecureChat (chatappweb): the client-side end-to-end-encryption core.    *)
(*                                                                         *)
(* Two cipher pipelines live side by side in the repository:               *)
(*   - room mode        (client/src/lib/crypto.ts, AES-GCM key in the URL  *)
(*                       fragment, hooks in client/src/hooks/              *)
(*                       use-secure-chat.ts);                              *)
(*   - conversation mode (unnamed/part_002, ECDH identity keys, hooks in   *)
(*                       unnamed/part_001, page in unnamed/part_003).      *)
(*                                                                         *)
(* Cryptography is modelled symbolically (perfect AES-GCM, perfect ECDH,   *)
(* an ideal random source): a ciphertext is the term that records the key, *)
(* the IV and the plaintext bytes it was sealed from; it opens only under  *)
(* exactly that key and IV, and a flipped bit makes it a different term.   *)
(* Text encoding (TextEncoder / TextDecoder) is computed byte by byte, and *)
(* base64 (btoa / atob) is a constructor with a partial inverse.           *)
(***************************************************************************)
EXTENDS Integers, Sequences, FiniteSets, TLC

VARIABLES
  rng,        \* number of values drawn so far from window.crypto's random source
  roomKey,    \* CreateRoomButton.handleCreate: the generated room key (or None)
  link,       \* the URL fragment written by handleCreate (or None)
  imp,        \* the last importKey call: its input and its outcome
  enc,        \* the last encryptMessage call: its inputs and its envelope
  dec,        \* the last decryptMessage call: its inputs and its outcome
  log,        \* every envelope returned by encryptMessage so far, in call order
  rooms,      \* server: the room codes created by POST /api/rooms
  plain,      \* the text in the input field of the session under test
  localStorage, \* the device's two identity slots (securechat_private_key, securechat_public_key)
  calls,      \* the initializeKeys calls of the device, each with its position
  mode,       \* which client the chat view belongs to: "room" or "conversation"
  activeId,   \* the room code / conversation id the chat view is showing
  store,      \* server: the stored messages of each room / conversation, oldest first
  queryCache, \* react-query: the last fetched message list of each id (or None)
  polling,    \* the ids with a message fetch in flight
  keysReady,  \* the view holds its key (imported room key / device private key)
  loaded,     \* conversation mode: the ids whose conversation record has arrived
  batches,    \* the processMessages runs in flight
  rendered,   \* useMessages' decryptedMessages state
  directory,  \* server: the publicKey column of each user's directory entry (or None)
  requests,   \* the HTTP requests the client has sent (method, path, body)
  sends,      \* the send attempts of the chat view, each with its position
  conversations, \* server: the rows of the conversation table
  otps,       \* server: the rows of the otp table
  handlers,   \* server: the route handlers started so far, each with its position
  now         \* server: the clock, in minutes

cipherVars == <<rng, roomKey, link, imp, enc, dec, log, rooms, plain>>

identityVars == <<localStorage, calls>>

syncVars ==
  <<mode, activeId, store, queryCache, polling, keysReady, loaded, batches, rendered>>

\* What the actions of one component leave alone.
wireVars == <<directory, requests, sends>>

serverVars == <<conversations, otps, handlers, now>>

outsideCipher == <<localStorage, calls, syncVars, wireVars, serverVars>>

outsideIdentity ==
  <<roomKey, link, imp, enc, dec, log, rooms, plain, syncVars, wireVars, serverVars>>

outsideSync ==
  <<roomKey, link, imp, enc, dec, log, rooms, plain, localStorage, calls, wireVars,
    serverVars>>

vars ==
  <<rng, roomKey, link, imp, enc, dec, log, rooms, plain, localStorage, calls,
    mode, activeId, store, queryCache, polling, keysReady, loaded, batches, rendered,
    directory, requests, sends, conversations, otps, handlers, now>>

(***************************************************************************)
(* Bounds of the model.                                                    *)
(***************************************************************************)
MaxLen == 2        \* longest plaintext, in UTF-16 code units
MaxRandom == 3     \* random draws (keys, IVs) in one behaviour
MaxCalls == 4      \* encryptMessage calls recorded in log
NumIdentities == 3 \* registered users with an identity key pair
MaxInitCalls == 2  \* initializeKeys calls of one device in one behaviour
NumIds == 2        \* rooms / conversations the chat view can show
MaxMessages == 2   \* messages that reach the server in one behaviour
MaxBatches == 2    \* processMessages runs in flight at once
MaxSends == 2      \* send attempts of the chat view in one behaviour
MaxHandlers == 3   \* route handlers the server starts in one behaviour
MaxClock == 6      \* minutes the server clock runs

None == [t |-> "none"]

\* The registered users: the signed-in user and the other participant of
\* every conversation the view can show.
Users == 1 .. (NumIds + 1)

\* The signed-in user.
Me == 1

(***************************************************************************)
(* Strings.  A JavaScript string is a sequence of UTF-16 code units.  The  *)
(* alphabet has an ASCII letter, U+FEFF, and the two halves of a surrogate *)
(* pair (U+D83D U+DE00), so texts range over ordinary text, text with a    *)
(* byte-order mark in it, and astral characters.  The input field holds    *)
(* well-formed text: every surrogate is half of a pair.                    *)
(***************************************************************************)
CodeUnits == {97, 65279, 55357, 56832}

RECURSIVE SeqsUpTo(_, _)
SeqsUpTo(S, n) ==
  IF n = 0 THEN {<<>>}
  ELSE LET shorter == SeqsUpTo(S, n - 1)
       IN  shorter \cup {Append(s, u) : s \in {q \in shorter : Len(q) = n - 1}, u \in S}

IsHighSurrogate(u) == u >= 55296 /\ u <= 56319

IsLowSurrogate(u) == u >= 56320 /\ u <= 57343

\* A string is well formed when every surrogate is half of a pair.
RECURSIVE IsWellFormed(_)
IsWellFormed(s) ==
  IF s = <<>> THEN TRUE
  ELSE IF IsHighSurrogate(s[1])
       THEN Len(s) >= 2 /\ IsLowSurrogate(s[2]) /\ IsWellFormed(SubSeq(s, 3, Len(s)))
       ELSE ~IsLowSurrogate(s[1]) /\ IsWellFormed(Tail(s))

Plaintexts == {s \in SeqsUpTo(CodeUnits, MaxLen) : IsWellFormed(s)}

\* TextEncoder.encode, step 1: the string is converted to scalar values;
\* an unpaired surrogate becomes U+FFFD.
RECURSIVE ToScalarValues(_)
ToScalarValues(s) ==
  IF s = <<>> THEN <<>>
  ELSE IF IsHighSurrogate(s[1]) /\ Len(s) >= 2 /\ IsLowSurrogate(s[2])
       THEN <<65536 + (s[1] - 55296) * 1024 + (s[2] - 56320)>>
              \o ToScalarValues(SubSeq(s, 3, Len(s)))
       ELSE IF IsHighSurrogate(s[1]) \/ IsLowSurrogate(s[1])
            THEN <<65533>> \o ToScalarValues(Tail(s))
            ELSE <<s[1]>> \o ToScalarValues(Tail(s))

\* TextEncoder.encode, step 2: UTF-8 bytes of one scalar value.
Utf8Bytes(c) ==
  IF c < 128 THEN <<c>>
  ELSE IF c < 2048 THEN <<192 + (c \div 64), 128 + (c % 64)>>
  ELSE IF c < 65536
       THEN <<224 + (c \div 4096), 128 + ((c \div 64) % 64), 128 + (c % 64)>>
       ELSE <<240 + (c \div 262144), 128 + ((c \div 4096) % 64),
              128 + ((c \div 64) % 64), 128 + (c % 64)>>

RECURSIVE Utf8Encode(_)
Utf8Encode(cs) ==
  IF cs = <<>> THEN <<>> ELSE Utf8Bytes(cs[1]) \o Utf8Encode(Tail(cs))

\* new TextEncoder().encode(text)
TextEncoderEncode(text) == Utf8Encode(ToScalarValues(text))

\* TextDecoder.decode, step 1: UTF-8 bytes to scalar values (a byte that does
\* not start a complete sequence decodes to U+FFFD).
RECURSIVE Utf8Decode(_)
Utf8Decode(b) ==
  IF b = <<>> THEN <<>>
  ELSE IF b[1] < 128 THEN <<b[1]>> \o Utf8Decode(Tail(b))
  ELSE IF b[1] >= 192 /\ b[1] < 224 /\ Len(b) >= 2
       THEN <<(b[1] - 192) * 64 + (b[2] - 128)>> \o Utf8Decode(SubSeq(b, 3, Len(b)))
  ELSE IF b[1] >= 224 /\ b[1] < 240 /\ Len(b) >= 3
       THEN <<(b[1] - 224) * 4096 + (b[2] - 128) * 64 + (b[3] - 128)>>
              \o Utf8Decode(SubSeq(b, 4, Len(b)))
  ELSE IF b[1] >= 240 /\ b[1] < 248 /\ Len(b) >= 4
       THEN <<(b[1] - 240) * 262144 + (b[2] - 128) * 4096
                + (b[3] - 128) * 64 + (b[4] - 128)>>
              \o Utf8Decode(SubSeq(b, 5, Len(b)))
  ELSE <<65533>> \o Utf8Decode(Tail(b))

\* TextDecoder.decode, step 2: scalar values to UTF-16 code units.
RECURSIVE FromScalarValues(_)
FromScalarValues(cs) ==
  IF cs = <<>> THEN <<>>
  ELSE IF cs[1] < 65536 THEN <<cs[1]>> \o FromScalarValues(Tail(cs))
       ELSE <<55296 + ((cs[1] - 65536) \div 1024), 56320 + ((cs[1] - 65536) % 1024)>>
              \o FromScalarValues(Tail(cs))

\* new TextDecoder().decode(buffer): the decoder is built with the default
\* ignoreBOM = false, which consumes a leading byte-order mark.
TextDecoderDecode(bytes) ==
  LET cs == Utf8Decode(bytes)
  IN  FromScalarValues(IF cs # <<>> /\ cs[1] = 65279 THEN Tail(cs) ELSE cs)

(***************************************************************************)
(* Base64.  btoa builds the canonical encoding of a buffer; atob accepts   *)
(* every encoding of a buffer (alias = 1 stands for a non-canonical one:   *)
(* inserted whitespace, dropped padding, non-zero trailing bits) and       *)
(* throws InvalidCharacterError on anything else.                          *)
(***************************************************************************)
btoa(buf) == [t |-> "b64", buf |-> buf, alias |-> 0]

NotBase64 == [t |-> "text", buf |-> None, alias |-> 0]

atobThrows(s) == s.t # "b64"

atob(s) == s.buf

\* part_002: arrayBufferToBase64 / base64ToArrayBuffer
arrayBufferToBase64(buffer) == btoa(buffer)

base64ToArrayBufferThrows(base64) == atobThrows(base64)

base64ToArrayBuffer(base64) == atob(base64)

Return(v) == [kind |-> "return", value |-> v]

Throw(e) == [kind |-> "throw", error |-> e]

(***************************************************************************)
(* Web Crypto, symbolically.                                               *)
(***************************************************************************)
KEY_LENGTH == 256

\* A random source that hands out the same twelve bytes on every draw.
getRandomValuesRepeating(r) == [t |-> "iv", n |-> 0, flip |-> 0]

\* window.crypto.getRandomValues(new Uint8Array(12)): the r-th draw of an ideal
\* random source; two draws never coincide.
getRandomValues(r) == [t |-> "iv", n |-> r, flip |-> 0]

\* subtle.encrypt({name: "AES-GCM", iv}, key, data)
subtleEncrypt(key, ivBuffer, data) ==
  [t |-> "gcm", secret |-> key.secret, length |-> key.length,
   iv |-> ivBuffer, pt |-> data, flip |-> 0]

\* subtle.decrypt({name: "AES-GCM", iv}, key, data) rejects (OperationError)
\* unless data was sealed under exactly this key and this IV and is intact.
subtleDecryptRejects(key, ivBuffer, data) ==
  ~(/\ key.alg = "AES-GCM"
    /\ data.t = "gcm"
    /\ data.flip = 0
    /\ data.secret = key.secret
    /\ data.length = key.length
    /\ data.iv = ivBuffer)

subtleDecrypt(key, ivBuffer, data) == data.pt

\* One bit of a buffer flipped.
FlipBit(buf) == [buf EXCEPT !.flip = 1]

\* Another base64 spelling of the same bytes.
Respell(s) == [s EXCEPT !.alias = 1]

(***************************************************************************)
(* Room mode: client/src/lib/crypto.ts                                     *)
(***************************************************************************)
\* generateKey(): a fresh extractable 256-bit AES-GCM key (the r-th draw).
generateKey(r) ==
  [alg |-> "AES-GCM", secret |-> [src |-> "random", n |-> r], length |-> 256]

\* An export that keeps only the first sixteen bytes of the raw key.
exportKeyTruncated(key) ==
  btoa([t |-> "raw", secret |-> key.secret, len |-> 16])

\* exportKey(key): raw export, then btoa.
exportKey(key) ==
  btoa([t |-> "raw", secret |-> key.secret, len |-> key.length \div 8])

\* subtle.importKey("raw", bytes, {name: "AES-GCM", length: 256}, ...): the
\* length member is not part of the import parameters; raw AES keys of 128,
\* 192 and 256 bits are accepted, any other data is rejected with DataError.
subtleImportRawRejects(bytes) == ~(bytes.t = "raw" /\ bytes.len \in {16, 24, 32})

subtleImportRaw(bytes) ==
  [alg |-> "AES-GCM", secret |-> bytes.secret, length |-> bytes.len * 8]

\* importKey(base64Key).  atob runs inside the try block; the promise of
\* subtle.importKey is returned without await, so its rejection leaves the
\* function as it is.
importKey(base64Key) ==
  IF atobThrows(base64Key) THEN Throw("Invalid encryption key format")
  ELSE IF subtleImportRawRejects(atob(base64Key)) THEN Throw("DataError")
  ELSE Return(subtleImportRaw(atob(base64Key)))

\* encryptMessage(text, key) with r the random draw it makes.
encryptMessageRoom(text, key, r) ==
  LET iv == getRandomValues(r)
      ciphertextBuffer == subtleEncrypt(key, iv, TextEncoderEncode(text))
  IN  [ciphertext |-> btoa(ciphertextBuffer), iv |-> btoa(iv)]

\* "[Decryption Error]"
DecryptionErrorText ==
  <<91, 68, 101, 99, 114, 121, 112, 116, 105, 111, 110, 32, 69, 114, 114, 111, 114, 93>>

\* decryptMessage(ciphertext, iv, key): every failure is caught and the
\* literal "[Decryption Error]" is returned.
decryptMessageRoom(ciphertext, iv, key) ==
  IF atobThrows(ciphertext) \/ atobThrows(iv) THEN Return(DecryptionErrorText)
  ELSE IF subtleDecryptRejects(key, atob(iv), atob(ciphertext))
       THEN Return(DecryptionErrorText)
       ELSE Return(TextDecoderDecode(subtleDecrypt(key, atob(iv), atob(ciphertext))))

(***************************************************************************)
(* Conversation mode: unnamed/part_002                                     *)
(***************************************************************************)
\* generateKeyPair(): a fresh P-256 key pair (the r-th draw).
generateKeyPair(r) ==
  [privateKey |-> [alg |-> "ECDH", type |-> "private", id |-> r],
   publicKey  |-> [alg |-> "ECDH", type |-> "public", id |-> r]]

exportPublicKey(keyPair) ==
  arrayBufferToBase64([t |-> "spki", id |-> keyPair.publicKey.id])

exportPrivateKey(keyPair) ==
  arrayBufferToBase64([t |-> "pkcs8", id |-> keyPair.privateKey.id])

\* importPublicKey(base64Key): atob may throw, subtle.importKey("spki") rejects
\* data that is not a P-256 public key.
importPublicKey(base64Key) ==
  IF base64ToArrayBufferThrows(base64Key) THEN Throw("InvalidCharacterError")
  ELSE IF base64ToArrayBuffer(base64Key).t # "spki" THEN Throw("DataError")
  ELSE Return([alg |-> "ECDH", type |-> "public", id |-> base64ToArrayBuffer(base64Key).id])

importPrivateKey(base64Key) ==
  IF base64ToArrayBufferThrows(base64Key) THEN Throw("InvalidCharacterError")
  ELSE IF base64ToArrayBuffer(base64Key).t # "pkcs8" THEN Throw("DataError")
  ELSE Return([alg |-> "ECDH", type |-> "private", id |-> base64ToArrayBuffer(base64Key).id])

Min(a, b) == IF a <= b THEN a ELSE b

Max(a, b) == IF a <= b THEN b ELSE a

\* deriveSharedKey(myPrivateKey, theirPublicKey): ECDH over P-256, then a
\* 256-bit AES-GCM key.  The shared secret of the scalars a and b is the same
\* whichever side computes it.
deriveSharedKey(myPrivateKey, theirPublicKey) ==
  [alg |-> "AES-GCM",
   secret |-> [src |-> "ecdh", lo |-> Min(myPrivateKey.id, theirPublicKey.id),
               hi |-> Max(myPrivateKey.id, theirPublicKey.id)],
   length |-> KEY_LENGTH]

encryptMessage(text, sharedKey, r) ==
  LET iv == getRandomValues(r)
      ciphertextBuffer == subtleEncrypt(sharedKey, iv, TextEncoderEncode(text))
  IN  [ciphertext |-> arrayBufferToBase64(ciphertextBuffer),
       iv |-> arrayBufferToBase64(iv)]

\* decryptMessage(ciphertext, iv, sharedKey): every failure is caught and
\* rethrown as Error("Failed to decrypt message").
decryptMessage(ciphertext, iv, sharedKey) ==
  IF base64ToArrayBufferThrows(ciphertext) \/ base64ToArrayBufferThrows(iv)
  THEN Throw("Failed to decrypt message")
  ELSE IF subtleDecryptRejects(sharedKey, base64ToArrayBuffer(iv),
                               base64ToArrayBuffer(ciphertext))
       THEN Throw("Failed to decrypt message")
       ELSE Return(TextDecoderDecode(subtleDecrypt(sharedKey, base64ToArrayBuffer(iv),
                                                   base64ToArrayBuffer(ciphertext))))

(***************************************************************************)
(* The cipher pipelines driven call by call.                               *)
(***************************************************************************)
Identities == 1 .. NumIdentities

\* The identity key pair of registered user a, generated on a's device.
KeyPair(a) == generateKeyPair(a)

\* What a's device computes for the conversation with b: b's published key is
\* imported and the shared key derived (part_001, lines 171-172 and 216-217).
SharedKeyFor(a, b) ==
  deriveSharedKey(KeyPair(a).privateKey, importPublicKey(exportPublicKey(KeyPair(b))).value)

\* Strings that are not the encoding of a 256-bit raw key.
JunkBytes(n) == [t |-> "raw", secret |-> [src |-> "junk", n |-> n], len |-> n]

MalformedKeyStrings == {NotBase64, btoa(JunkBytes(5)), btoa(JunkBytes(16))}

\* Room keys a session can hold: the one it generated, the one it imported.
RoomKeysHeld ==
  (IF roomKey = None THEN {} ELSE {roomKey})
    \cup (IF imp # None /\ imp.out.kind = "return" THEN {imp.out.value} ELSE {})

ConversationKeys == {SharedKeyFor(a, b) : a, b \in Identities}

\* What a decrypt call may be handed in place of a produced envelope: the
\* envelope itself, or the envelope with one field (or both) changed.
Variants(field) ==
  {field, Respell(field), btoa(FlipBit(atob(field))), NotBase64}

EnvelopeVariants(envelope) ==
  {[ciphertext |-> c, iv |-> envelope.iv] : c \in Variants(envelope.ciphertext)}
    \cup {[ciphertext |-> envelope.ciphertext, iv |-> i] : i \in Variants(envelope.iv)}
    \cup {[ciphertext |-> btoa(FlipBit(atob(envelope.ciphertext))),
           iv |-> btoa(FlipBit(atob(envelope.iv)))]}

InitCipher ==
  /\ rng = 0
  /\ roomKey = None
  /\ link = None
  /\ imp = None
  /\ enc = None
  /\ dec = None
  /\ log = <<>>
  /\ rooms = {}
  /\ plain \in Plaintexts
  /\ localStorage = [priv |-> None, pub |-> None]
  /\ calls = [c \in 1 .. MaxInitCalls |-> None]
  /\ mode = "room"
  /\ activeId = 1
  /\ store = [i \in 1 .. NumIds |-> <<>>]
  /\ queryCache = [i \in 1 .. NumIds |-> None]
  /\ polling = {}
  /\ keysReady = FALSE
  /\ loaded = {}
  /\ batches = {}
  /\ rendered = <<>>
  /\ directory = [u \in Users |-> None]
  /\ requests = {}
  /\ sends = <<>>
  /\ conversations = {}
  /\ otps = {}
  /\ handlers = <<>>
  /\ now = 0

\* A room creation request that carries the exported key in its body.
createRoomRequestWithKey(keyString) ==
  [method |-> "POST", path |-> "/api/rooms", param |-> None,
   body |-> [key |-> keyString], attempt |-> 0]

\* useCreateRoom.mutationFn: fetch(api.rooms.create.path, {method}) has no
\* body; the key string stays in handleCreate.
createRoomRequest(keyString) ==
  [method |-> "POST", path |-> "/api/rooms", param |-> None, body |-> None, attempt |-> 0]

\* CreateRoomButton.handleCreate: generateKey, exportKey, POST /api/rooms
\* (storage.createRoom draws the room code), then setLocation with the key
\* in the fragment.  A failed POST leaves the page where it is.
handleCreate ==
  /\ roomKey = None
  /\ rng + 2 <= MaxRandom
  /\ LET key == generateKey(rng)
         keyString == exportKey(key)
         code == rng + 1
     IN  \/ /\ rooms' = rooms \cup {code}
            /\ roomKey' = key
            /\ link' = [code |-> code, fragment |-> keyString]
            /\ rng' = rng + 2
         \/ /\ rng' = rng + 1
            /\ UNCHANGED <<rooms, roomKey, link>>
  /\ requests' = requests \cup {createRoomRequest(exportKey(generateKey(rng)))}
  /\ UNCHANGED <<imp, enc, dec, log, plain>>
  /\ UNCHANGED <<localStorage, calls, syncVars, directory, sends>>
  /\ UNCHANGED serverVars

\* A session opens a room link: the key string after '#' is handed to
\* importKey.
OpenRoomLink(s) ==
  /\ imp' = [input |-> s, out |-> importKey(s)]
  /\ UNCHANGED <<rng, roomKey, link, enc, dec, log, rooms, plain>>
  /\ UNCHANGED outsideCipher

OpenLink ==
  \E s \in (IF link = None THEN {} ELSE {link.fragment, Respell(link.fragment)})
             \cup MalformedKeyStrings :
    OpenRoomLink(s)

\* Room mode: encryptMessage(text, key) on the text of the input field.
EncryptRoom ==
  /\ rng < MaxRandom
  /\ \E key \in RoomKeysHeld :
       enc' = [mode |-> "room", text |-> plain, key |-> key,
               envelope |-> encryptMessageRoom(plain, key, rng)]
  /\ rng' = rng + 1
  /\ dec' = None
  /\ UNCHANGED <<roomKey, link, imp, log, rooms, plain>>
  /\ UNCHANGED outsideCipher

\* Conversation mode: a's device encrypts the text for b.
EncryptConversation ==
  /\ rng < MaxRandom
  /\ \E a, b \in Identities :
       /\ a # b
       /\ enc' = [mode |-> "conversation", text |-> plain, key |-> SharedKeyFor(a, b),
                  envelope |-> encryptMessage(plain, SharedKeyFor(a, b), rng)]
  /\ rng' = rng + 1
  /\ dec' = None
  /\ UNCHANGED <<roomKey, link, imp, log, rooms, plain>>
  /\ UNCHANGED outsideCipher

\* Room mode: decryptMessage on the last envelope or a variation of it.
DecryptRoom ==
  /\ enc # None
  /\ enc.mode = "room"
  /\ \E e \in EnvelopeVariants(enc.envelope), key \in RoomKeysHeld :
       dec' = [mode |-> "room", ciphertext |-> e.ciphertext, iv |-> e.iv, key |-> key,
               out |-> decryptMessageRoom(e.ciphertext, e.iv, key)]
  /\ UNCHANGED <<rng, roomKey, link, imp, enc, log, rooms, plain>>
  /\ UNCHANGED outsideCipher

\* Conversation mode: c's device decrypts, with the key it derives for d, the
\* last envelope or a variation of it.
DecryptConversation ==
  /\ enc # None
  /\ enc.mode = "conversation"
  /\ \E e \in EnvelopeVariants(enc.envelope), c, d \in Identities :
       /\ c # d
       /\ dec' = [mode |-> "conversation", ciphertext |-> e.ciphertext, iv |-> e.iv,
                  key |-> SharedKeyFor(c, d),
                  out |-> decryptMessage(e.ciphertext, e.iv, SharedKeyFor(c, d))]
  /\ UNCHANGED <<rng, roomKey, link, imp, enc, log, rooms, plain>>
  /\ UNCHANGED outsideCipher

NextCipher ==
  \/ handleCreate
  \/ OpenLink
  \/ EncryptRoom
  \/ EncryptConversation
  \/ DecryptRoom
  \/ DecryptConversation

SpecCipher == InitCipher /\ [][NextCipher]_vars

(***************************************************************************)
(* The same pipelines with every returned envelope kept, to compare the    *)
(* envelopes of different calls.                                           *)
(***************************************************************************)
\* useCreateMessage.mutationFn up to the POST: encryptMessage(content, key).
LoggedEncryptRoom ==
  /\ Len(log) < MaxCalls
  /\ roomKey # None
  /\ \E text \in {plain, <<97>>} :
       log' = Append(log, [text |-> text, key |-> roomKey,
                           envelope |-> encryptMessageRoom(text, roomKey, rng)])
  /\ rng' = rng + 1
  /\ UNCHANGED <<roomKey, link, imp, enc, dec, rooms, plain>>
  /\ UNCHANGED outsideCipher

\* useSendMessage.mutationFn up to the POST: import, derive, encryptMessage.
LoggedEncryptConversation ==
  /\ Len(log) < MaxCalls
  /\ \E text \in {plain, <<97>>}, a, b \in Identities :
       /\ a # b
       /\ log' = Append(log, [text |-> text, key |-> SharedKeyFor(a, b),
                              envelope |-> encryptMessage(text, SharedKeyFor(a, b), rng)])
  /\ rng' = rng + 1
  /\ UNCHANGED <<roomKey, link, imp, enc, dec, rooms, plain>>
  /\ UNCHANGED outsideCipher

NextIv ==
  \/ handleCreate
  \/ LoggedEncryptRoom
  \/ LoggedEncryptConversation

SpecIv == InitCipher /\ [][NextIv]_vars

(***************************************************************************)
(* Properties of the cipher pipelines.                                     *)
(***************************************************************************)
\* The last decrypt call was handed exactly the envelope of the last encrypt
\* call.
DecryptedProducedEnvelope ==
  /\ enc # None
  /\ dec # None
  /\ dec.ciphertext = enc.envelope.ciphertext
  /\ dec.iv = enc.envelope.iv

\* The last decrypt call was handed bytes other than the produced ones: a
\* field that does not decode, or decodes to a different buffer.
DecryptedTamperedEnvelope ==
  /\ enc # None
  /\ dec # None
  /\ \/ atobThrows(dec.ciphertext)
     \/ atobThrows(dec.iv)
     \/ atob(dec.ciphertext) # atob(enc.envelope.ciphertext)
     \/ atob(dec.iv) # atob(enc.envelope.iv)

\* C1 (as claimed): decrypting, with the key K, the envelope that
\* encryptMessage(P, K) returned gives back exactly P, in room mode and in
\* conversation mode.
C1_RoundTrip ==
  (DecryptedProducedEnvelope /\ dec.key = enc.key) => dec.out = Return(enc.text)

\* C2 (as claimed): decrypting with a ciphertext or IV other than the produced
\* one, or with a key other than K, ends in a failure; no string is handed
\* back to the caller.
C2_TamperDetection ==
  (DecryptedTamperedEnvelope \/ (enc # None /\ dec # None /\ dec.key # enc.key))
    => dec.out.kind = "throw"

\* C5 (as claimed): what a encrypts with deriveSharedKey(a.private, b.public)
\* is decrypted to the original plaintext with deriveSharedKey(b.private,
\* a.public), and a key derived with a third identity's material does not
\* decrypt it.
C5_AgreementSymmetry ==
  \A a, b \in Identities :
    (a # b /\ DecryptedProducedEnvelope /\ enc.mode = "conversation"
       /\ enc.key = SharedKeyFor(a, b))
    => /\ dec.key = SharedKeyFor(b, a) => dec.out = Return(enc.text)
       /\ \A c, d \in Identities :
            (c # d /\ {c, d} # {a, b} /\ dec.key = SharedKeyFor(c, d))
              => dec.out.kind = "throw"

\* C6: no two encryptMessage calls under the same key return the same IV, and
\* none return the same ciphertext, also when their plaintexts are identical.
C6_IvUniqueness ==
  \A i, j \in 1 .. Len(log) :
    (i < j /\ log[i].key = log[j].key)
    => /\ log[i].envelope.iv # log[j].envelope.iv
       /\ log[i].envelope.ciphertext # log[j].envelope.ciphertext

\* C6 witness: the same plaintext was encrypted twice under the same key, in
\* room mode and in conversation mode.
C6_Witness ==
  /\ \E i, j \in 1 .. Len(log) :
       i < j /\ log[i].key = log[j].key /\ log[i].text = log[j].text
         /\ log[i].key = roomKey /\ log[i].text # <<>>
  /\ \E i, j \in 1 .. Len(log) :
       i < j /\ log[i].key = log[j].key /\ log[i].text = log[j].text
         /\ log[i].key # roomKey

\* A string is the encoding exportKey gives to a 256-bit key.
IsEncodedRoomKey(s) == s.t = "b64" /\ s.buf.t = "raw" /\ s.buf.len = 32

C10_MalformedKeyRejected ==
  (imp # None /\ ~IsEncodedRoomKey(imp.input))
    => imp.out = Throw("Invalid encryption key format")

(***************************************************************************)
(* Identity key store: unnamed/part_002, lines 170-240.                    *)
(* Every await is a point where another call of the same device can run.   *)
(***************************************************************************)
\* The key pair a previous session of the device generated.
PreviousKeyPair == generateKeyPair(0)

\* What the two slots can hold when a session starts: nothing, the identity
\* of a previous session, that identity with a private-key blob that is not
\* base64 or not a PKCS#8 key, or a public key alone.
StoredIdentity(keyPair) ==
  [priv |-> exportPrivateKey(keyPair), pub |-> exportPublicKey(keyPair)]

InitialStorages ==
  {[priv |-> None, pub |-> None],
   StoredIdentity(PreviousKeyPair),
   [priv |-> NotBase64, pub |-> exportPublicKey(PreviousKeyPair)],
   [priv |-> btoa(JunkBytes(5)), pub |-> exportPublicKey(PreviousKeyPair)],
   [priv |-> None, pub |-> exportPublicKey(PreviousKeyPair)]}

\* loadKeyPair, lines 191-196: a missing slot means no identity.
loadKeyPairMissing(slots) == slots.priv = None \/ slots.pub = None

\* A load that never finds the stored identity.
loadKeyPairFindsNothing(slots) == None

\* loadKeyPair, lines 198-204: the private key is imported and returned with
\* the stored public key string; a failed import is logged and null returned.
loadKeyPair(slots) ==
  IF loadKeyPairMissing(slots) THEN None
  ELSE IF importPrivateKey(slots.priv).kind = "throw" THEN None
  ELSE [privateKey |-> importPrivateKey(slots.priv).value, publicKey |-> slots.pub]

\* hasStoredKeyPair()
hasStoredKeyPair == localStorage.priv # None /\ localStorage.pub # None

\* Both slots are present and the private-key blob imports.
HoldsParsableIdentity(slots) ==
  ~loadKeyPairMissing(slots) /\ importPrivateKey(slots.priv).kind = "return"

\* Both slots are present and the private-key blob does not import.
HoldsCorruptIdentity(slots) ==
  ~loadKeyPairMissing(slots) /\ importPrivateKey(slots.priv).kind = "throw"

InitIdentity ==
  /\ rng = 1
  /\ roomKey = None
  /\ link = None
  /\ imp = None
  /\ enc = None
  /\ dec = None
  /\ log = <<>>
  /\ rooms = {}
  /\ plain = <<>>
  /\ localStorage \in InitialStorages
  /\ calls = [c \in 1 .. MaxInitCalls |-> None]
  /\ mode = "room"
  /\ activeId = 1
  /\ store = [i \in 1 .. NumIds |-> <<>>]
  /\ queryCache = [i \in 1 .. NumIds |-> None]
  /\ polling = {}
  /\ keysReady = FALSE
  /\ loaded = {}
  /\ batches = {}
  /\ rendered = <<>>
  /\ directory \in {[u \in Users |-> IF u = Me THEN k ELSE None] :
                      k \in {None, exportPublicKey(PreviousKeyPair)}}
  /\ requests = {}
  /\ sends = <<>>
  /\ conversations = {}
  /\ otps = {}
  /\ handlers = <<>>
  /\ now = 0

\* initializeKeys() is called: loadKeyPair reads the two slots (lines 191-192)
\* and either returns null at once or awaits importPrivateKey.
CallInitializeKeys(c) ==
  /\ calls[c] = None
  /\ calls' = [calls EXCEPT ![c] =
       [pc |-> IF loadKeyPairMissing(localStorage) THEN "generateKeyPair"
               ELSE "importPrivateKey",
        slots |-> localStorage,
        keyPair |-> None,
        wrote |-> FALSE,
        result |-> None,
        user |-> directory[Me],
        uploaded |-> FALSE,
        error |-> FALSE]]
  /\ UNCHANGED <<rng, localStorage>>
  /\ UNCHANGED outsideIdentity

\* importPrivateKey settles: loadKeyPair returns the identity, which
\* initializeKeys returns (line 228), or null, and initializeKeys goes on to
\* generateKeyPair (line 232).
LoadKeyPairSettles(c) ==
  /\ calls[c] # None
  /\ calls[c].pc = "importPrivateKey"
  /\ LET existing == loadKeyPair(calls[c].slots)
     IN  calls' = [calls EXCEPT ![c] =
           IF existing # None
           THEN [@ EXCEPT !.pc = "returned", !.result = Return(existing)]
           ELSE [@ EXCEPT !.pc = "generateKeyPair"]]
  /\ UNCHANGED <<rng, localStorage>>
  /\ UNCHANGED outsideIdentity

\* generateKeyPair settles (line 232); storeKeyPair starts its two exports.
GenerateKeyPairSettles(c) ==
  /\ calls[c] # None
  /\ calls[c].pc = "generateKeyPair"
  /\ rng < MaxRandom
  /\ calls' = [calls EXCEPT ![c] =
       [@ EXCEPT !.pc = "storeKeyPair", !.keyPair = generateKeyPair(rng)]]
  /\ rng' = rng + 1
  /\ UNCHANGED localStorage
  /\ UNCHANGED outsideIdentity

\* storeKeyPair, lines 177-181: after the exports the two slots are written
\* one after the other with no await between them.
storeKeyPair(c) ==
  /\ calls[c] # None
  /\ calls[c].pc = "storeKeyPair"
  /\ localStorage' = StoredIdentity(calls[c].keyPair)
  /\ calls' = [calls EXCEPT ![c] = [@ EXCEPT !.pc = "exportPublicKey", !.wrote = TRUE]]
  /\ UNCHANGED rng
  /\ UNCHANGED outsideIdentity

\* Lines 235-239: the public key is exported and the new identity returned.
ReturnNewIdentity(c) ==
  /\ calls[c] # None
  /\ calls[c].pc = "exportPublicKey"
  /\ calls' = [calls EXCEPT ![c] =
       [@ EXCEPT !.pc = "returned",
                 !.result = Return([privateKey |-> calls[c].keyPair.privateKey,
                                    publicKey |-> exportPublicKey(calls[c].keyPair)])]]
  /\ UNCHANGED <<rng, localStorage>>
  /\ UNCHANGED outsideIdentity

\* An upload that sends the exported private key in the publicKey field.
uploadPrivateKeyBody(keyData) ==
  [publicKey |-> arrayBufferToBase64([t |-> "pkcs8", id |-> keyData.privateKey.id])]

\* uploadPublicKey.mutationFn: body: JSON.stringify({ publicKey }).
uploadPublicKeyBody(keyData) == [publicKey |-> keyData.publicKey]

\* useInitializeKeys.initialize after initializeKeys() has returned (lines
\* 150-155): the keys are kept in component state, and the public key is
\* uploaded with PATCH /api/auth/me unless the user object handed to
\* initialize already carries it.  The route stores the string it receives
\* (auth-routes.ts, lines 142-150); the request may also be lost, and then
\* mutateAsync rejects and initialize ends with that error.
initialize(c, reaches) ==
  /\ calls[c] # None
  /\ calls[c].pc = "returned"
  /\ calls[c].result.kind = "return"
  /\ ~calls[c].uploaded
  /\ calls' = [calls EXCEPT ![c] =
       [@ EXCEPT !.uploaded = TRUE,
                 !.error = ~reaches /\ (calls[c].user = None
                                         \/ calls[c].user # calls[c].result.value.publicKey)]]
  /\ LET keyData == calls[c].result.value
         body == uploadPublicKeyBody(keyData)
     IN  IF calls[c].user = None \/ calls[c].user # keyData.publicKey
         THEN /\ requests' = requests \cup
                   {[method |-> "PATCH", path |-> "/api/auth/me", param |-> None,
                     body |-> body, attempt |-> 0]}
              /\ directory' = IF reaches THEN [directory EXCEPT ![Me] = body.publicKey]
                              ELSE directory
         ELSE /\ ~reaches
              /\ UNCHANGED <<requests, directory>>
  /\ UNCHANGED <<rng, localStorage, sends>>
  /\ UNCHANGED <<roomKey, link, imp, enc, dec, log, rooms, plain, syncVars>>
  /\ UNCHANGED serverVars

\* What a caller of useUpdateProfile passes: a display name, or the public
\* key string an initialisation returned.
ProfileUpdates ==
  {[name |-> [t |-> "text", s |-> <<97>>]]} \cup
  {[publicKey |-> calls[c].result.value.publicKey] :
     c \in {d \in 1 .. MaxInitCalls :
              calls[d] # None /\ calls[d].pc = "returned" /\ calls[d].result.kind = "return"}}

\* useUpdateProfile.mutationFn(data): body: JSON.stringify(data) (lines
\* 245-253); the route stores the publicKey it receives.
useUpdateProfile(data, reaches) ==
  /\ data \in ProfileUpdates
  /\ [method |-> "PATCH", path |-> "/api/auth/me", param |-> None,
      body |-> data, attempt |-> 0] \notin requests
  /\ requests' = requests \cup
       {[method |-> "PATCH", path |-> "/api/auth/me", param |-> None,
         body |-> data, attempt |-> 0]}
  /\ directory' = IF reaches /\ "publicKey" \in DOMAIN data
                  THEN [directory EXCEPT ![Me] = data.publicKey] ELSE directory
  /\ UNCHANGED <<rng, localStorage, calls, sends>>
  /\ UNCHANGED <<roomKey, link, imp, enc, dec, log, rooms, plain, syncVars>>
  /\ UNCHANGED serverVars

NextIdentity ==
  \/ \E c \in 1 .. MaxInitCalls, reaches \in BOOLEAN : initialize(c, reaches)
  \/ \E data \in ProfileUpdates, reaches \in BOOLEAN : useUpdateProfile(data, reaches)
  \/ \E c \in 1 .. MaxInitCalls : CallInitializeKeys(c)
  \/ \E c \in 1 .. MaxInitCalls : LoadKeyPairSettles(c)
  \/ \E c \in 1 .. MaxInitCalls : GenerateKeyPairSettles(c)
  \/ \E c \in 1 .. MaxInitCalls : storeKeyPair(c)
  \/ \E c \in 1 .. MaxInitCalls : ReturnNewIdentity(c)

SpecIdentity == InitIdentity /\ [][NextIdentity]_vars

(***************************************************************************)
(* Properties of the identity key store.                                   *)
(***************************************************************************)
Started == {c \in 1 .. MaxInitCalls : calls[c] # None}

C8_CorruptIdentitySurfaced ==
  \A c \in Started :
    HoldsCorruptIdentity(calls[c].slots)
      => /\ calls[c].keyPair = None
         /\ ~calls[c].wrote
         /\ calls[c].pc = "returned" => calls[c].result = Throw("IdentityCorrupt")

(***************************************************************************)
(* Message sync loop: useMessages of room mode (client/src/hooks/          *)
(* use-secure-chat.ts, lines 7-43) and of conversation mode                *)
(* (unnamed/part_001, lines 143-197), over the message store.              *)
(***************************************************************************)
Ids == 1 .. NumIds

\* The signed-in user of the device, and the other participant of each
\* conversation.
PeerOf(id) == id + 1

\* The key every participant of a room holds.
RoomKeyOf(id) == generateKey(id)

\* "Message could not be decrypted"
CouldNotDecryptText ==
  <<77, 101, 115, 115, 97, 103, 101, 32, 99, 111, 117, 108, 100, 32, 110,
    111, 116, 32, 98, 101, 32, 100, 101, 99, 114, 121, 112, 116, 101, 100>>

\* "[Decryption failed]"
DecryptionFailedText ==
  <<91, 68, 101, 99, 114, 121, 112, 116, 105, 111, 110, 32, 102, 97, 105,
    108, 101, 100, 93>>

DEFAULT_LIMIT == 50

\* ORDER BY createdAt ASC over the rows of a table: the lists the database
\* may return.  Rows with equal createdAt come in either order.  The rows are
\* placed one by one, each at a position that keeps the list ascending.
InsertByCreatedAt(list, row) ==
  {SubSeq(list, 1, k) \o <<row>> \o SubSeq(list, k + 1, Len(list)) :
     k \in {p \in 0 .. Len(list) :
              /\ p = 0 \/ list[p].createdAt <= row.createdAt
              /\ p = Len(list) \/ row.createdAt <= list[p + 1].createdAt}}

RECURSIVE OrderedUpTo(_, _)
OrderedUpTo(rows, n) ==
  IF n = 0 THEN {<<>>}
  ELSE UNION {InsertByCreatedAt(list, rows[n]) : list \in OrderedUpTo(rows, n - 1)}

OrderByCreatedAtAsc(rows) == OrderedUpTo(rows, Len(rows))

\* storage.getMessages(roomId): every message of the room, ordered by
\* createdAt ascending.
getMessagesRoom(roomId) == OrderByCreatedAtAsc(store[roomId])

\* getMessages(conversationId, cursor, limit) as the route calls it for a
\* request with no cursor and no limit: ordered by createdAt ascending, the
\* first `limit` rows taken.
getMessages(conversationId, limit) ==
  {SubSeq(list, 1, Min(Len(list), limit)) :
     list \in OrderByCreatedAtAsc(store[conversationId])}

\* The createdAt of the newest stored row (0 when nothing is stored).
RECURSIVE NewestUpTo(_)
NewestUpTo(n) ==
  IF n = 0 THEN 0
  ELSE LET here == IF store[n] = <<>> THEN 0 ELSE store[n][Len(store[n])].createdAt
       IN  Max(here, NewestUpTo(n - 1))

\* The orders in which the decryptions of a batch of n messages may settle:
\* first to last, and last to first.
CompletionOrders(n) == {[i \in 1 .. n |-> i], [i \in 1 .. n |-> n + 1 - i]}

\* A Promise.all that hands back the results in the order they settled.
PromiseAllAsSettled(results, order) == [i \in DOMAIN results |-> results[order[i]]]

\* Promise.all(promises): the results in the order of the promises, whatever
\* the order in which they settled.
PromiseAll(results, order) == [i \in DOMAIN results |-> results[i]]

\* A state setter that adds the processed batch to what is shown.
appendDecryptedMessages(previous, processed) == previous \o processed

\* setDecryptedMessages(processed): the processed batch replaces the state.
setDecryptedMessages(previous, processed) == processed

RECURSIVE StoredUpTo(_)
StoredUpTo(n) == IF n = 0 THEN 0 ELSE Len(store[n]) + StoredUpTo(n - 1)

TotalStored == StoredUpTo(NumIds)

\* Room mode, lines 27-36: every message goes through decryptMessage; the
\* catch branch marks a message whose decryption threw.
processMessagesRoom(data, key) ==
  [i \in 1 .. Len(data) |->
     LET r == decryptMessageRoom(data[i].content, data[i].iv, key)
     IN  IF r.kind = "return"
         THEN [msg |-> data[i], shown |-> r.value, isDecrypted |-> TRUE]
         ELSE [msg |-> data[i], shown |-> CouldNotDecryptText, isDecrypted |-> FALSE]]

\* Conversation mode, lines 174-183, with the shared key of the batch.
processMessages(data, sharedKey) ==
  [i \in 1 .. Len(data) |->
     LET r == decryptMessage(data[i].content, data[i].iv, sharedKey)
     IN  IF r.kind = "return"
         THEN [msg |-> data[i], shown |-> r.value, isDecrypted |-> TRUE]
         ELSE [msg |-> data[i], shown |-> DecryptionFailedText, isDecrypted |-> FALSE]]

\* The values the effect of useMessages depends on: query.data and the key
\* material handed to the hook.
Scope(id, cache, ready, arrived) ==
  [data |-> cache[id],
   key  |-> IF ~ready THEN None
            ELSE IF mode = "room" THEN RoomKeyOf(id) ELSE KeyPair(Me).privateKey,
   pub  |-> IF mode = "conversation" /\ id \in arrived
            THEN directory[PeerOf(id)] ELSE None]

\* The guard of processMessages (room: line 25; conversation: line 165).
HasAllInputs(scope) ==
  /\ scope.data # None
  /\ scope.key # None
  /\ mode = "conversation" => scope.pub # None

\* The effect of useMessages, run after a render in which a dependency
\* changed: processMessages starts and runs up to its first await.
\* Conversation mode clears the list when an input is missing; room mode
\* returns.
useMessagesEffect(old, new) ==
  IF new = old THEN UNCHANGED <<rendered, batches>>
  ELSE IF HasAllInputs(new)
       THEN /\ batches' = batches \cup {[id |-> activeId', data |-> new.data.list,
                                         key |-> new.key, pub |-> new.pub]}
            /\ Cardinality(batches') <= MaxBatches
            /\ UNCHANGED rendered
       ELSE /\ rendered' = IF mode = "conversation" THEN <<>> ELSE rendered
            /\ UNCHANGED batches

\* What the user directory can hold once every user has uploaded a public
\* key: PATCH /api/auth/me stores any string (server/auth-routes.ts, lines
\* 142-150), so a peer's entry is the key of that peer's device or a string
\* that is no key at all.
PublishedDirectories ==
  {d \in [Users -> {exportPublicKey(KeyPair(u)) : u \in Users} \cup {NotBase64}] :
     /\ d[Me] = exportPublicKey(KeyPair(Me))
     /\ \A u \in Users : d[u] \in {exportPublicKey(KeyPair(u)), NotBase64}}

InitSync ==
  /\ rng = 0
  /\ roomKey = None
  /\ link = None
  /\ imp = None
  /\ enc = None
  /\ dec = None
  /\ log = <<>>
  /\ rooms = {}
  /\ plain = <<>>
  /\ localStorage = [priv |-> None, pub |-> None]
  /\ calls = [c \in 1 .. MaxInitCalls |-> None]
  /\ mode \in {"room", "conversation"}
  /\ activeId = 1
  /\ store = [i \in Ids |-> <<>>]
  /\ queryCache = [i \in Ids |-> None]
  /\ polling = {}
  /\ keysReady = FALSE
  /\ loaded = {}
  /\ batches = {}
  /\ rendered = <<>>
  /\ directory \in (IF mode = "room" THEN {[u \in Users |-> None]}
                    ELSE PublishedDirectories)
  /\ requests = {}
  /\ sends = <<>>
  /\ conversations = {}
  /\ otps = {}
  /\ handlers = <<>>
  /\ now = 0

\* Another participant sends a message to room / conversation id: the text is
\* encrypted on that participant's device and POSTed; the server stores what
\* it receives without looking at it (server/routes.ts, lines 37-59;
\* unnamed/part_006, POST /api/conversations/:id/messages).  `damage` says
\* which field, if any, reaches the server with a bit flipped; `sent` and
\* `damage` are history fields of the model, not read by any operation.
PeerSendsMessage(id, damage) ==
  /\ rng < MaxMessages
  /\ \E createdAt \in {Max(NewestUpTo(NumIds), 1), NewestUpTo(NumIds) + 1} :
     LET text == <<97>>
         e == IF mode = "room"
              THEN encryptMessageRoom(text, RoomKeyOf(id), rng)
              ELSE encryptMessage(text, SharedKeyFor(PeerOf(id), Me), rng)
         message ==
           [id |-> TotalStored + 1, cid |-> id, senderId |-> PeerOf(id),
            content |-> IF damage = "ciphertext" THEN btoa(FlipBit(atob(e.ciphertext)))
                        ELSE e.ciphertext,
            iv |-> IF damage = "iv" THEN btoa(FlipBit(atob(e.iv))) ELSE e.iv,
            createdAt |-> createdAt, sent |-> text, damage |-> damage]
     IN  store' = [store EXCEPT ![id] = Append(@, message)]
  /\ rng' = rng + 1
  /\ UNCHANGED <<mode, activeId, queryCache, polling, keysReady, loaded, batches, rendered>>
  /\ UNCHANGED outsideSync

\* The view is pointed at another room / conversation (the route parameter
\* changes; the hook instance and its state stay).
SwitchTo(id) ==
  /\ id # activeId
  /\ activeId' = id
  /\ UNCHANGED <<mode, store, queryCache, polling, keysReady, loaded, rng>>
  /\ useMessagesEffect(Scope(activeId, queryCache, keysReady, loaded),
                       Scope(id, queryCache, keysReady, loaded))
  /\ UNCHANGED outsideSync

\* The key of the view arrives: the room key is imported, or initialize has
\* set the device keys.
KeysBecomeReady ==
  /\ ~keysReady
  /\ keysReady' = TRUE
  /\ UNCHANGED <<mode, activeId, store, queryCache, polling, loaded, rng>>
  /\ useMessagesEffect(Scope(activeId, queryCache, keysReady, loaded),
                       Scope(activeId, queryCache, TRUE, loaded))
  /\ UNCHANGED outsideSync

\* useConversation(id) delivers the conversation record with the peer's
\* public key (part_003, lines 19-20).
ConversationLoaded ==
  /\ mode = "conversation"
  /\ activeId \notin loaded
  /\ loaded' = loaded \cup {activeId}
  /\ UNCHANGED <<mode, activeId, store, queryCache, polling, keysReady, rng>>
  /\ useMessagesEffect(Scope(activeId, queryCache, keysReady, loaded),
                       Scope(activeId, queryCache, keysReady, loaded'))
  /\ UNCHANGED outsideSync

\* A path parameter or an identifier field of a request.
IdField(n) == [t |-> "id", n |-> n]

\* queryFn of useMessages: fetch of the message list of an id, no query
\* string, no body.
listMessagesRequest(id) ==
  [method |-> "GET",
   path |-> IF mode = "room" THEN "/api/rooms/:code/messages"
            ELSE "/api/conversations/:id/messages",
   param |-> IdField(id), body |-> None, attempt |-> 0]

\* The query of the showing id starts a fetch (mount, refetchInterval: 2000,
\* invalidateQueries after a send).
PollStarts ==
  /\ activeId \notin polling
  /\ polling' = polling \cup {activeId}
  /\ requests' = requests \cup {listMessagesRequest(activeId)}
  /\ UNCHANGED <<mode, activeId, store, queryCache, keysReady, loaded, batches, rendered, rng>>
  /\ UNCHANGED <<roomKey, link, imp, enc, dec, log, rooms, plain, localStorage, calls,
                 directory, sends>>
  /\ UNCHANGED serverVars

\* A fetch returns: the response goes into the cache entry of the id it was
\* issued for; the view re-renders when that id is the one it shows.
PollCompletes(id) ==
  /\ id \in polling
  /\ polling' = polling \ {id}
  /\ \E list \in (IF mode = "room" THEN getMessagesRoom(id)
                  ELSE getMessages(id, DEFAULT_LIMIT)) :
       queryCache' = [queryCache EXCEPT ![id] = [t |-> "data", list |-> list]]
  /\ UNCHANGED <<mode, activeId, store, keysReady, loaded, rng>>
  /\ useMessagesEffect(Scope(activeId, queryCache, keysReady, loaded),
                       Scope(activeId, queryCache', keysReady, loaded))
  /\ UNCHANGED outsideSync

\* A processMessages run finishes: Promise.all has settled and
\* setDecryptedMessages(processed) is called.  In conversation mode a failed
\* importPublicKey is caught and logged, and nothing is set.
BatchCompletes(b) ==
  /\ b \in batches
  /\ batches' = batches \ {b}
  /\ \E order \in CompletionOrders(Len(b.data)) :
       rendered' =
         IF mode = "room"
         THEN setDecryptedMessages(rendered,
                PromiseAll(processMessagesRoom(b.data, b.key), order))
         ELSE IF importPublicKey(b.pub).kind = "throw" THEN rendered
         ELSE setDecryptedMessages(rendered,
                PromiseAll(processMessages(b.data,
                             deriveSharedKey(b.key, importPublicKey(b.pub).value)),
                           order))
  /\ UNCHANGED <<mode, activeId, store, queryCache, polling, keysReady, loaded, rng>>
  /\ UNCHANGED outsideSync

NextSync ==
  \/ \E id \in Ids, damage \in {"none", "iv", "ciphertext"} : PeerSendsMessage(id, damage)
  \/ \E id \in Ids : SwitchTo(id)
  \/ KeysBecomeReady
  \/ ConversationLoaded
  \/ PollStarts
  \/ \E id \in Ids : PollCompletes(id)
  \/ \E b \in batches : BatchCompletes(b)

SpecSync == InitSync /\ [][NextSync]_vars

\* The rendered list holds exactly one message whose IV or ciphertext was
\* corrupted.
ExactlyOneCorrupted ==
  Cardinality({i \in DOMAIN rendered : rendered[i].msg.damage # "none"}) = 1

\* C3 (per-message failure isolation): when a decrypted batch holds exactly
\* one message with a corrupted IV or ciphertext, that message and only that
\* message is rendered with isDecrypted = false, and every other message is
\* rendered with isDecrypted = true and the plaintext that was sent.
C3_FailureIsolation ==
  ExactlyOneCorrupted =>
    \A i \in DOMAIN rendered :
      /\ rendered[i].isDecrypted = (rendered[i].msg.damage = "none")
      /\ rendered[i].msg.damage = "none" => rendered[i].shown = rendered[i].msg.sent

\* C4 (race safety): a decrypt batch that was issued for an identifier other
\* than the one now active is discarded when it completes, leaving the
\* rendered list as it was.
C4_StaleBatchDiscarded ==
  [][\A b \in batches :
       (b.id # activeId /\ BatchCompletes(b)) => rendered' = rendered]_vars

\* The ids of a list of messages, in order.
IdsOf(list) == [i \in DOMAIN list |-> list[i].id]

\* A batch that, on completion, sets the rendered list.
BatchIsApplied(b) == mode = "room" \/ importPublicKey(b.pub).kind = "return"

\* C11 (ordering): when a decrypt batch is applied, the rendered sequence
\* holds the message ids of the fetched batch in the order of the fetched
\* batch, and that order is ascending creation time; the order in which the
\* decryptions of the batch settle makes no difference.
C11_Ordering ==
  [][\A b \in batches :
       (BatchCompletes(b) /\ BatchIsApplied(b))
         => /\ IdsOf([i \in DOMAIN rendered' |-> rendered'[i].msg]) = IdsOf(b.data)
            /\ \A i, j \in DOMAIN rendered' :
                 i < j => rendered'[i].msg.createdAt <= rendered'[j].msg.createdAt]_vars

\* C11 witness: a batch of two messages created at different times has been
\* applied and both are rendered.
C11_Witness ==
  /\ Len(rendered) = 2
  /\ rendered[1].msg.createdAt < rendered[2].msg.createdAt
  /\ rendered[1].msg.cid = rendered[2].msg.cid

\* C12 (idempotent delivery): the rendered sequence holds each message id at
\* most once, however often polls deliver the same message.
C12_IdempotentDelivery ==
  \A i, j \in DOMAIN rendered : i < j => rendered[i].msg.id # rendered[j].msg.id

\* C12 witness: two messages are rendered and a batch of another poll that
\* delivers one of them again is being decrypted.
C12_Witness ==
  /\ Len(rendered) = 2
  /\ \E b \in batches : \E i \in DOMAIN b.data : b.data[i].id = rendered[1].msg.id

\* C19 (no silent drop): when a decrypt batch completes, every message of
\* the fetched batch is in the rendered sequence, decrypted or marked as
\* failed, also when the peer's public key could not be imported.
C19_NoSilentDrop ==
  [][\A b \in batches :
       BatchCompletes(b)
         => \A i \in DOMAIN b.data :
              \E k \in DOMAIN rendered' : rendered'[k].msg.id = b.data[i].id]_vars

(***************************************************************************)
(* Retrieval in a conversation that already holds messages: the view of    *)
(* one participant stays on the conversation and keeps polling, with valid *)
(* keys on both sides.                                                     *)
(***************************************************************************)
\* The messages the conversation holds when the view opens: n messages the
\* peer sent earlier, one per clock tick, each sealed with its own IV.
History(n) ==
  [i \in 1 .. n |->
     LET e == encryptMessage(<<97>>, SharedKeyFor(PeerOf(1), Me), 0 - i)
     IN  [id |-> i, cid |-> 1, senderId |-> PeerOf(1),
          content |-> e.ciphertext, iv |-> e.iv,
          createdAt |-> i, sent |-> <<97>>, damage |-> "none"]]

\* Sizes of that history: none, and one short of a page.
BacklogSizes == {0, DEFAULT_LIMIT - 1}

InitRetrieval ==
  /\ rng = 0
  /\ roomKey = None
  /\ link = None
  /\ imp = None
  /\ enc = None
  /\ dec = None
  /\ log = <<>>
  /\ rooms = {}
  /\ plain = <<>>
  /\ localStorage = [priv |-> None, pub |-> None]
  /\ calls = [c \in 1 .. MaxInitCalls |-> None]
  /\ mode = "conversation"
  /\ activeId = 1
  /\ \E n \in BacklogSizes :
       store = [i \in Ids |-> IF i = 1 THEN History(n) ELSE <<>>]
  /\ queryCache = [i \in Ids |-> None]
  /\ polling = {}
  /\ keysReady = FALSE
  /\ loaded = {}
  /\ batches = {}
  /\ rendered = <<>>
  /\ directory = [u \in Users |-> exportPublicKey(KeyPair(u))]
  /\ requests = {}
  /\ sends = <<>>
  /\ conversations = {}
  /\ otps = {}
  /\ handlers = <<>>
  /\ now = 0

PeerSendsToActive == PeerSendsMessage(activeId, "none")

ActivePollCompletes == PollCompletes(activeId)

SomeBatchCompletes == \E b \in batches : BatchCompletes(b)

NextRetrieval ==
  \/ PeerSendsToActive
  \/ KeysBecomeReady
  \/ ConversationLoaded
  \/ PollStarts
  \/ ActivePollCompletes
  \/ SomeBatchCompletes

\* The keys and the conversation record arrive, the query refetches every two
\* seconds, every fetch and every decrypt batch settles.
FairRetrieval ==
  /\ WF_vars(KeysBecomeReady)
  /\ WF_vars(ConversationLoaded)
  /\ WF_vars(PollStarts)
  /\ WF_vars(ActivePollCompletes)
  /\ WF_vars(SomeBatchCompletes)

SpecRetrieval == InitRetrieval /\ [][NextRetrieval]_vars /\ FairRetrieval

\* The message at position p of the active conversation is stored / is in
\* the rendered sequence.
StoredAt(p) == p <= Len(store[activeId])

RenderedFrom(p) ==
  /\ StoredAt(p)
  /\ \E k \in DOMAIN rendered : rendered[k].msg.id = store[activeId][p].id

\* The positions the property is checked at: the oldest message, the last
\* message of the first page, and the message after it.
CheckedPositions == {1, DEFAULT_LIMIT, DEFAULT_LIMIT + 1}

\* C20 (retrieval completeness): every message stored for the conversation
\* is eventually in the rendered sequence of the polling participant,
\* however many messages the conversation holds.
C20_RetrievalComplete ==
  \A p \in CheckedPositions : StoredAt(p) ~> RenderedFrom(p)

(***************************************************************************)
(* The send path: ChatRoom.handleSend and useSendMessage (conversation     *)
(* mode, unnamed/part_003 and unnamed/part_001), useCreateMessage (room     *)
(* mode, client/src/hooks/use-secure-chat.ts), and the routes that store    *)
(* what they POST.                                                          *)
(***************************************************************************)
\* What the user may type into the input field.
InputTexts == {<<97>>, <<65279>>}

\* String.prototype.trim(): leading and trailing white space removed; of the
\* code units of the model, U+FEFF is white space.
RECURSIVE trim(_)
trim(text) ==
  IF text = <<>> THEN text
  ELSE IF Head(text) = 65279 THEN trim(Tail(text))
  ELSE IF text[Len(text)] = 65279 THEN trim(SubSeq(text, 1, Len(text) - 1))
  ELSE text

\* What the chat view is handed as the peer's public key.
otherUserPublicKey ==
  IF activeId \in loaded THEN directory[PeerOf(activeId)] ELSE None

\* A mutationFn that derives the shared key on the first send and keeps it
\* for the sends that follow.
useSendMessageEncryptMemoised(plaintext, myPrivateKey, pub, r) ==
  IF myPrivateKey = None \/ pub = None THEN Throw("Encryption keys not ready")
  ELSE IF importPublicKey(pub).kind = "throw" THEN importPublicKey(pub)
  ELSE IF \E j \in DOMAIN sends : sends[j].envelope # None
       THEN LET j == CHOOSE j \in DOMAIN sends : sends[j].envelope # None
            IN  Return(encryptMessage(plaintext,
                         [alg |-> "AES-GCM", length |-> KEY_LENGTH,
                          secret |-> sends[j].envelope.ciphertext.buf.secret], r))
  ELSE Return(encryptMessage(plaintext,
                deriveSharedKey(myPrivateKey, importPublicKey(pub).value), r))

\* A mutationFn that, when the peer's key does not import, encrypts with the
\* key derived from the sender's own published key.
useSendMessageEncryptWithFallback(plaintext, myPrivateKey, pub, r) ==
  IF myPrivateKey = None \/ pub = None THEN Throw("Encryption keys not ready")
  ELSE IF importPublicKey(pub).kind = "throw"
       THEN Return(encryptMessage(plaintext, SharedKeyFor(Me, Me), r))
  ELSE Return(encryptMessage(plaintext,
                deriveSharedKey(myPrivateKey, importPublicKey(pub).value), r))

\* useSendMessage.mutationFn up to the fetch (part_001, lines 210-219): the
\* key check, importPublicKey, deriveSharedKey, encryptMessage.  A failure
\* of any of them leaves the function as a rejection.
useSendMessageEncrypt(plaintext, myPrivateKey, pub, r) ==
  IF myPrivateKey = None \/ pub = None THEN Throw("Encryption keys not ready")
  ELSE IF importPublicKey(pub).kind = "throw" THEN importPublicKey(pub)
  ELSE Return(encryptMessage(plaintext,
                deriveSharedKey(myPrivateKey, importPublicKey(pub).value), r))

\* A mutationFn without the key check, encrypting under a key of its own when
\* none is given.
useCreateMessageEncryptUnguarded(content, key, r) ==
  Return(encryptMessageRoom(content, IF key = None THEN generateKey(0) ELSE key, r))

\* A mutationFn that keeps the envelope of an earlier attempt with the same
\* content and sends it again.
useCreateMessageEncryptCached(content, key, r) ==
  IF key = None THEN Throw("No encryption key available")
  ELSE IF \E k \in DOMAIN sends : sends[k].content = content /\ sends[k].envelope # None
       THEN Return(sends[CHOOSE k \in DOMAIN sends :
                           sends[k].content = content /\ sends[k].envelope # None].envelope)
  ELSE Return(encryptMessageRoom(content, key, r))

\* useCreateMessage.mutationFn up to the fetch (use-secure-chat.ts, lines
\* 49-51).
useCreateMessageEncrypt(content, key, r) ==
  IF key = None THEN Throw("No encryption key available")
  ELSE Return(encryptMessageRoom(content, key, r))

\* A request body that carries the text as it was typed.
sendMessageBodyInClear(plaintext, envelope) ==
  [content |-> [t |-> "text", s |-> plaintext], iv |-> envelope.iv]

\* useSendMessage: body: JSON.stringify({ content: ciphertext, iv }).
sendMessageBody(plaintext, envelope) ==
  [content |-> envelope.ciphertext, iv |-> envelope.iv]

\* useCreateMessage: payload = { content: ciphertext, iv, senderId }.
createMessagePayload(content, envelope, senderId) ==
  [content |-> envelope.ciphertext, iv |-> envelope.iv, senderId |-> senderId]

\* The senderId the room page hands to useCreateMessage: the identifier of
\* the session.
sessionSenderId == IdField(Me)

createMessageRequest(id, body, attempt) ==
  [method |-> "POST",
   path |-> IF mode = "room" THEN "/api/rooms/:code/messages"
            ELSE "/api/conversations/:id/messages",
   param |-> IdField(id), body |-> body, attempt |-> attempt]

\* A catch branch that leaves the input field as it is.
keepInput(content, current) == current

\* handleSend's catch branch: setInput(content).
restoreInput(content, current) == content

InitSend ==
  /\ rng = 0
  /\ roomKey = None
  /\ link = None
  /\ imp = None
  /\ enc = None
  /\ dec = None
  /\ log = <<>>
  /\ rooms = {}
  /\ plain = <<>>
  /\ localStorage = [priv |-> None, pub |-> None]
  /\ calls = [c \in 1 .. MaxInitCalls |-> None]
  /\ mode \in {"room", "conversation"}
  /\ activeId = 1
  /\ store = [i \in Ids |-> <<>>]
  /\ queryCache = [i \in Ids |-> None]
  /\ polling = {}
  /\ keysReady = FALSE
  /\ loaded = {}
  /\ batches = {}
  /\ rendered = <<>>
  /\ directory \in (IF mode = "room" THEN {[u \in Users |-> None]}
                    ELSE {d \in PublishedDirectories :
                            \A u \in Users \ {PeerOf(1)} : d[u] # NotBase64})
  /\ requests = {}
  /\ sends = <<>>
  /\ conversations = {}
  /\ otps = {}
  /\ handlers = <<>>
  /\ now = 0

\* The user edits the input field.
TypeText(text) ==
  /\ plain # text
  /\ plain' = text
  /\ UNCHANGED <<rng, roomKey, link, imp, enc, dec, log, rooms, localStorage, calls>>
  /\ UNCHANGED <<syncVars, wireVars>>
  /\ UNCHANGED serverVars

\* ChatRoom.handleSend up to the await (part_003, lines 33-41): nothing
\* happens for blank input or without keys; otherwise the field is cleared
\* and the mutation started.  The form's submit button is disabled while
\* sendMessage.isPending (line 148), so one attempt runs at a time.
handleSend ==
  /\ mode = "conversation"
  /\ Len(sends) < MaxSends
  /\ \A k \in DOMAIN sends : sends[k].pc = "settled"
  /\ trim(plain) # <<>>
  /\ keysReady
  /\ sends' = Append(sends, [content |-> plain, pc |-> "mutationFn", envelope |-> None,
                             stored |-> FALSE, ok |-> FALSE])
  /\ plain' = <<>>
  /\ UNCHANGED <<rng, roomKey, link, imp, enc, dec, log, rooms, localStorage, calls>>
  /\ UNCHANGED <<syncVars, directory, requests>>
  /\ UNCHANGED serverVars

\* useSendMessage.mutationFn of attempt k runs up to its fetch.  When it
\* rejects, mutateAsync rejects and handleSend's catch restores the input.
useSendMessageMutationFn(k) ==
  /\ k \in DOMAIN sends
  /\ mode = "conversation"
  /\ sends[k].pc = "mutationFn"
  /\ LET out == useSendMessageEncrypt(sends[k].content,
                   IF keysReady THEN KeyPair(Me).privateKey ELSE None,
                   otherUserPublicKey, rng)
     IN  IF out.kind = "throw"
         THEN /\ plain' = restoreInput(sends[k].content, plain)
              /\ sends' = [sends EXCEPT ![k].pc = "settled"]
              /\ UNCHANGED <<rng, requests>>
         ELSE /\ sends' = [sends EXCEPT ![k].pc = "fetch", ![k].envelope = out.value]
              /\ requests' = requests \cup
                   {createMessageRequest(activeId,
                      sendMessageBody(sends[k].content, out.value), k)}
              /\ rng' = rng + 1
              /\ UNCHANGED plain
  /\ UNCHANGED <<roomKey, link, imp, enc, dec, log, rooms, localStorage, calls>>
  /\ UNCHANGED <<syncVars, directory>>
  /\ UNCHANGED serverVars

\* useCreateMessage.mutationFn(content) runs up to its fetch (room mode).
useCreateMessageMutationFn(content) ==
  /\ mode = "room"
  /\ Len(sends) < MaxSends
  /\ LET out == useCreateMessageEncrypt(content,
                   IF keysReady THEN RoomKeyOf(activeId) ELSE None, rng)
         k == Len(sends) + 1
     IN  IF out.kind = "throw"
         THEN /\ sends' = Append(sends, [content |-> content, pc |-> "settled",
                                         envelope |-> None, stored |-> FALSE,
                                         ok |-> FALSE])
              /\ UNCHANGED <<rng, requests>>
         ELSE /\ sends' = Append(sends, [content |-> content, pc |-> "fetch",
                                         envelope |-> out.value, stored |-> FALSE,
                                         ok |-> FALSE])
              /\ requests' = requests \cup
                   {createMessageRequest(activeId,
                      createMessagePayload(content, out.value, sessionSenderId), k)}
              /\ rng' = rng + 1
  /\ UNCHANGED <<roomKey, link, imp, enc, dec, log, rooms, plain, localStorage, calls>>
  /\ UNCHANGED <<syncVars, directory>>
  /\ UNCHANGED serverVars

\* The request of attempt k as it was sent.
RequestOf(k) == CHOOSE r \in requests : r.attempt = k

\* The fetch of attempt k settles.  The route stores content and iv as they
\* came (routes.ts, lines 37-59; part_006, lines 182-215; createMessage) when
\* the request reaches it; the client sees res.ok, or a failure (the request
\* or the response lost, a status other than 2xx).  On failure the mutation
\* rejects; in conversation mode handleSend's catch restores the input.
fetchSettles(k, reaches, ok) ==
  /\ k \in DOMAIN sends
  /\ sends[k].pc = "fetch"
  /\ ok => reaches
  /\ store' =
       IF reaches
       THEN [store EXCEPT ![RequestOf(k).param.n] =
               Append(@, [id |-> TotalStored + 1, cid |-> RequestOf(k).param.n,
                          senderId |-> Me,
                          content |-> RequestOf(k).body.content,
                          iv |-> RequestOf(k).body.iv,
                          createdAt |-> NewestUpTo(NumIds) + 1,
                          sent |-> sends[k].content, damage |-> "none"])]
       ELSE store
  /\ plain' = IF ok \/ mode = "room" THEN plain
              ELSE restoreInput(sends[k].content, plain)
  /\ sends' = [sends EXCEPT ![k].pc = "settled", ![k].stored = reaches, ![k].ok = ok]
  /\ UNCHANGED <<rng, roomKey, link, imp, enc, dec, log, rooms, localStorage, calls>>
  /\ UNCHANGED <<mode, activeId, queryCache, polling, keysReady, loaded, batches, rendered>>
  /\ UNCHANGED <<directory, requests>>
  /\ UNCHANGED serverVars

\* The peer publishes another public key (PATCH /api/auth/me stores the string
\* it receives, auth-routes.ts lines 142-150) and the conversation query of
\* the view returns it: otherUserPublicKey changes, the send hook is rebuilt
\* with it and the effect of useMessages runs again.
PeerPublishesKey(k) ==
  /\ mode = "conversation"
  /\ k # directory[PeerOf(activeId)]
  /\ directory' = [directory EXCEPT ![PeerOf(activeId)] = k]
  /\ UNCHANGED <<mode, activeId, store, queryCache, polling, keysReady, loaded, rng>>
  /\ useMessagesEffect(Scope(activeId, queryCache, keysReady, loaded),
                       [Scope(activeId, queryCache, keysReady, loaded) EXCEPT
                          !.pub = IF activeId \in loaded THEN k ELSE None])
  /\ UNCHANGED <<roomKey, link, imp, enc, dec, log, rooms, plain, localStorage, calls>>
  /\ UNCHANGED <<requests, sends>>
  /\ UNCHANGED serverVars

NextSend ==
  \/ \E k \in {exportPublicKey(KeyPair(u)) : u \in Users \ {Me}} : PeerPublishesKey(k)
  \/ \E text \in InputTexts : TypeText(text)
  \/ handleSend
  \/ \E k \in DOMAIN sends : useSendMessageMutationFn(k)
  \/ \E content \in InputTexts : useCreateMessageMutationFn(content)
  \/ \E k \in DOMAIN sends, reaches, ok \in BOOLEAN : fetchSettles(k, reaches, ok)
  \/ handleCreate
  \/ KeysBecomeReady
  \/ ConversationLoaded
  \/ PollStarts
  \/ \E id \in Ids : PollCompletes(id)
  \/ \E b \in batches : BatchCompletes(b)

SpecSend == InitSend /\ [][NextSend]_vars

\* C13: no plaintext loss on send.  At the step that completes a send attempt
\* of the conversation view, a failed attempt (key import, encryption or
\* transport) leaves the submitted text in the input field, and in every case
\* the submitted text is then either held by the server as the ciphertext the
\* attempt produced or present in the input field.
C13_NoPlaintextLoss ==
  [][\A k \in DOMAIN sends :
       (mode = "conversation" /\ sends[k].pc # "settled" /\ sends'[k].pc = "settled")
         => /\ ~sends'[k].ok => plain' = sends[k].content
            /\ \/ plain' = sends[k].content
               \/ /\ sends'[k].envelope # None
                  /\ \E i \in DOMAIN store'[activeId] :
                        /\ store'[activeId][i].content = sends'[k].envelope.ciphertext
                        /\ store'[activeId][i].iv = sends'[k].envelope.iv]_vars

\* A send whose request was lost has completed, the user had typed something
\* else meanwhile, and the submitted text is back in the input field.
C13_Witness ==
  /\ mode = "conversation"
  /\ \E k \in DOMAIN sends :
        /\ sends[k].pc = "settled"
        /\ sends[k].envelope # None
        /\ ~sends[k].ok
        /\ ~sends[k].stored
        /\ plain = sends[k].content
        /\ store[activeId] = <<>>

\* C14: a fresh envelope on every send attempt.  The envelope a create-message
\* request carries is the one its own attempt's encrypt call returned, and no
\* two attempts POST the same (ciphertext, iv), the same text sent again after
\* a failure included.
C14_FreshEnvelopePerAttempt ==
  /\ \A r \in requests :
        r.attempt > 0 =>
          /\ r.attempt \in DOMAIN sends
          /\ sends[r.attempt].envelope # None
          /\ r.body.content = sends[r.attempt].envelope.ciphertext
          /\ r.body.iv = sends[r.attempt].envelope.iv
  /\ \A r1, r2 \in requests :
        (r1.attempt > 0 /\ r2.attempt > 0 /\ r1.attempt # r2.attempt)
          => <<r1.body.content, r1.body.iv>> # <<r2.body.content, r2.body.iv>>

\* An attempt failed and the same text was submitted and POSTed again.
C14_Witness ==
  \E r1, r2 \in requests :
    /\ r1.attempt > 0
    /\ r2.attempt > r1.attempt
    /\ sends[r1.attempt].pc = "settled"
    /\ ~sends[r1.attempt].ok
    /\ sends[r2.attempt].content = sends[r1.attempt].content
    /\ r1.body.iv # r2.body.iv

\* C15: the server only sees ciphertext.  In every create-message request the
\* content field is the base64 of the AES-GCM output over the submitted text,
\* no field of the request (path parameter, content, iv, senderId) is the
\* submitted text, and every message the store holds has such a ciphertext as
\* its content.
C15_ServerOnlySeesCiphertext ==
  /\ \A r \in requests :
        r.attempt > 0 =>
          LET typed == [t |-> "text", s |-> sends[r.attempt].content]
          IN  /\ r.body.content.t = "b64"
              /\ r.body.content.buf.t = "gcm"
              /\ r.body.content.buf.pt = TextEncoderEncode(sends[r.attempt].content)
              /\ r.body.content # typed
              /\ r.body.iv # typed
              /\ r.param # typed
              /\ mode = "room" => r.body.senderId # typed
  /\ \A id \in Ids : \A i \in DOMAIN store[id] :
        /\ store[id][i].content.t = "b64"
        /\ store[id][i].content.buf.t = "gcm"
        /\ store[id][i].content.buf.pt = TextEncoderEncode(store[id][i].sent)

\* Two messages sent from the conversation view are held by the store.
C15_Witness ==
  /\ mode = "conversation"
  /\ Len(store[activeId]) = 2
  /\ \A k \in DOMAIN sends : sends[k].ok
  /\ \E r \in requests : r.attempt = 2

\* C16: room key confidentiality.  Neither a room key the session holds, nor
\* its raw bytes, nor its base64 string is the path parameter, the body or a
\* body field of any request sent (create room, list messages, create
\* message), and none of them is a content or iv held by the message store or
\* an entry of the user directory.  (Room codes, the remaining server state,
\* are numbers the server draws.)
C16_RoomKeyConfidential ==
  LET held == ({roomKey} \ {None}) \cup {RoomKeyOf(id) : id \in Ids}
      material == UNION {{k, atob(exportKey(k)), exportKey(k)} : k \in held}
  IN  /\ \A r \in requests :
            /\ r.param \notin material
            /\ r.body \notin material
            /\ r.body # None => \A f \in DOMAIN r.body : r.body[f] \notin material
      /\ \A id \in Ids : \A i \in DOMAIN store[id] :
            store[id][i].content \notin material /\ store[id][i].iv \notin material
      /\ \A u \in Users : directory[u] \notin material

\* In room mode a room was created with its key in the link, the message list
\* was requested, and a message was sent and stored.
C16_Witness ==
  /\ mode = "room"
  /\ roomKey # None
  /\ link # None
  /\ link.fragment = exportKey(roomKey)
  /\ \E r \in requests : r.method = "POST" /\ r.path = "/api/rooms"
  /\ \E r \in requests : r.method = "GET"
  /\ \E r \in requests : r.attempt > 0
  /\ store[activeId] # <<>>

\* C18: no fallback key.  In the conversation view, at the step in which
\* mutationFn of a send attempt runs: when the peer's public key in scope
\* does not import, the attempt produces no envelope and no request, it
\* completes as failed and the store is unchanged; otherwise the ciphertext
\* it POSTs is sealed under the key derived from the sender's private key
\* and the peer's imported public key, and under no other key.
C18_NoFallbackKey ==
  [][mode = "conversation" =>
       \A k \in DOMAIN sends :
         (sends[k].pc = "mutationFn" /\ sends'[k].pc # "mutationFn")
           => IF importPublicKey(otherUserPublicKey).kind = "throw"
              THEN /\ sends'[k].envelope = None
                   /\ sends'[k].pc = "settled"
                   /\ ~sends'[k].ok
                   /\ requests' = requests
                   /\ store' = store
              ELSE /\ sends'[k].envelope.ciphertext.buf.secret =
                        deriveSharedKey(KeyPair(Me).privateKey,
                          importPublicKey(otherUserPublicKey).value).secret
                   /\ \E r \in requests' \ requests :
                        /\ r.attempt = k
                        /\ r.body.content = sends'[k].envelope.ciphertext]_vars

\* The peer's key is not base64, a send was attempted and has failed without
\* a request, and the text is back in the input field.
C18_Witness ==
  /\ mode = "conversation"
  /\ activeId \in loaded
  /\ directory[PeerOf(activeId)] = NotBase64
  /\ \E k \in DOMAIN sends :
        sends[k].pc = "settled" /\ ~sends[k].ok /\ plain = sends[k].content
  /\ \A r \in requests : r.attempt = 0

\* C17: the private key stays on the device.  No private key of an identity
\* key pair, in any form (the key object, its PKCS#8 bytes, their base64
\* string), is the body or a body field of a request made by identity
\* initialisation or profile update, the publicKey field of such a request is
\* the base64 of an SPKI public key, no entry of the user directory is a
\* private key, and the private key is written to the private-key slot of
\* local storage only.
C17_PrivateKeyStaysOnDevice ==
  LET private == UNION {{generateKeyPair(n).privateKey, [t |-> "pkcs8", id |-> n],
                         exportPrivateKey(generateKeyPair(n))} : n \in 0 .. MaxRandom}
  IN  /\ \A r \in requests :
            /\ r.body \notin private
            /\ r.body # None => \A f \in DOMAIN r.body : r.body[f] \notin private
            /\ (r.body # None /\ "publicKey" \in DOMAIN r.body)
                 => r.body.publicKey.t = "b64" /\ r.body.publicKey.buf.t = "spki"
      /\ \A u \in Users : directory[u] \notin private
      /\ localStorage.pub \notin private

\* A new identity was generated and stored, and its public key was uploaded
\* and is the directory entry of the user.
C17_Witness ==
  /\ \E n \in 1 .. MaxRandom : localStorage = StoredIdentity(generateKeyPair(n))
  /\ directory[Me] = localStorage.pub
  /\ \E r \in requests : r.method = "PATCH" /\ r.body = [publicKey |-> localStorage.pub]
  /\ \E c \in 1 .. MaxInitCalls : calls[c] # None /\ calls[c].uploaded /\ calls[c].wrote

\* C21: poll results are applied in order.  Once no decrypt batch is in
\* flight, the view has all its inputs and the peer's key imports, the
\* rendered list holds the messages of the most recently fetched data of the
\* showing identifier: the result of a batch for an earlier poll is not
\* written after the result of the batch for a later poll.
C21_PollResultsAppliedInOrder ==
  LET scope == Scope(activeId, queryCache, keysReady, loaded)
  IN  (/\ batches = {}
       /\ HasAllInputs(scope)
       /\ mode = "conversation" => importPublicKey(scope.pub).kind = "return")
        => IdsOf([i \in DOMAIN rendered |-> rendered[i].msg]) = IdsOf(scope.data.list)

\* C22: no derived-key caching.  Every send seals its message under the key
\* derived from the sender's private key and the peer public key in scope
\* when mutationFn runs; every decrypt batch that starts carries the peer
\* public key in scope at its start, and when it completes a message is
\* shown decrypted exactly when it was sealed under the key derived from
\* that public key.
C22_NoDerivedKeyCaching ==
  [][mode = "conversation" =>
       /\ \A k \in DOMAIN sends :
            (sends[k].envelope = None /\ sends'[k].envelope # None)
              => sends'[k].envelope.ciphertext.buf.secret =
                   deriveSharedKey(KeyPair(Me).privateKey,
                     importPublicKey(directory[PeerOf(activeId)]).value).secret
       /\ \A b \in batches' \ batches : b.pub = directory'[PeerOf(b.id)]
       /\ \A b \in batches :
            (BatchCompletes(b) /\ BatchIsApplied(b))
              => \A i \in DOMAIN rendered' :
                   rendered'[i].isDecrypted =
                     (rendered'[i].msg.content.buf.secret =
                        deriveSharedKey(b.key, importPublicKey(b.pub).value).secret)]_vars

\* Two messages were sent, the peer's public key changed between them, and
\* they are sealed under different keys; the rendered list shows the first
\* as not decryptable under the key now in scope.
C22_Witness ==
  /\ mode = "conversation"
  /\ Len(sends) = 2
  /\ sends[1].envelope # None
  /\ sends[2].envelope # None
  /\ sends[1].envelope.ciphertext.buf.secret # sends[2].envelope.ciphertext.buf.secret
  /\ Len(rendered) = 2
  /\ ~rendered[1].isDecrypted
  /\ rendered[2].isDecrypted

\* C30: send requires keys.  A room send made while the room key is null, and
\* a conversation send whose mutationFn runs while the private key or the
\* peer's public key is null, ends as failed without encrypting (no IV is
\* drawn, no envelope exists), adds no request and leaves the message store
\* unchanged; the conversation view starts no send at all while it has no
\* keys.
C30_SendRequiresKeys ==
  [][/\ (mode = "room" /\ ~keysReady /\ Len(sends') > Len(sends))
          => /\ sends'[Len(sends')].pc = "settled"
             /\ ~sends'[Len(sends')].ok
             /\ sends'[Len(sends')].envelope = None
             /\ requests' = requests /\ store' = store /\ rng' = rng
     /\ (mode = "conversation" /\ ~keysReady) => sends' = sends
     /\ mode = "conversation" =>
          \A k \in DOMAIN sends :
            (/\ sends[k].pc = "mutationFn"
             /\ sends'[k].pc # "mutationFn"
             /\ ~keysReady \/ otherUserPublicKey = None)
              => /\ sends'[k].pc = "settled"
                 /\ ~sends'[k].ok
                 /\ sends'[k].envelope = None
                 /\ requests' = requests /\ store' = store /\ rng' = rng]_vars

\* In a room whose key has not arrived a send was attempted and has failed:
\* there is no envelope, no create-message request and no stored message.
C30_Witness ==
  /\ mode = "room"
  /\ ~keysReady
  /\ Len(sends) = 1
  /\ sends[1].pc = "settled"
  /\ ~sends[1].ok
  /\ sends[1].envelope = None
  /\ \A r \in requests : r.attempt = 0
  /\ store[activeId] = <<>>

\* C24: concurrent identity initialisation agrees.  Two initializeKeys calls
\* that both started while local storage held no identity and have both
\* returned, have returned the same key pair, and that key pair is the
\* identity in local storage; and once a call has written the identity, the
\* two slots hold the halves of one key pair.
C24_ConcurrentInitialisationAgrees ==
  /\ \A c1, c2 \in Started :
        (/\ c1 # c2
         /\ calls[c1].slots = [priv |-> None, pub |-> None]
         /\ calls[c2].slots = [priv |-> None, pub |-> None]
         /\ calls[c1].pc = "returned"
         /\ calls[c2].pc = "returned")
          => /\ calls[c1].result = calls[c2].result
             /\ calls[c1].result.kind = "return"
             /\ localStorage.pub = calls[c1].result.value.publicKey
             /\ importPrivateKey(localStorage.priv) = Return(calls[c1].result.value.privateKey)
  /\ (\E c \in Started : calls[c].wrote)
        => \E n \in 0 .. MaxRandom : localStorage = StoredIdentity(generateKeyPair(n))

\* C25: the published key matches the local key.  At the step in which
\* initialize(user) completes, a request is sent exactly when the public key
\* of the user object is absent or differs from the key initializeKeys
\* returned, and when initialize completes without error the directory entry
\* of the user equals the public key in local storage; also when initialize
\* runs more than once.
C25_PublishedKeyMatchesLocalKey ==
  [][\A c \in Started :
       (~calls[c].uploaded /\ calls'[c].uploaded)
         => /\ (requests' # requests \/ calls'[c].error \/ directory' # directory)
                 => (calls[c].user = None
                     \/ calls[c].user # calls[c].result.value.publicKey)
            /\ ~calls'[c].error => directory'[Me] = localStorage'.pub]_vars

(***************************************************************************)
(* The server of conversation mode: the conversation and message routes    *)
(* (unnamed/part_006) over the storage layer (unnamed/part_004), behind    *)
(* requireAuth (server/auth-routes.ts).  A caller is the id of the         *)
(* authenticated user of the session, or 0 for a request without a         *)
(* session; 0 is also the id of no user.  User ids are strings in the      *)
(* code and [a, b].sort() orders them by code unit; the model orders the   *)
(* numbers that stand for them.                                            *)
(***************************************************************************)
InitServer ==
  /\ rng = 0
  /\ roomKey = None
  /\ link = None
  /\ imp = None
  /\ enc = None
  /\ dec = None
  /\ log = <<>>
  /\ rooms = {}
  /\ plain = <<>>
  /\ localStorage = [priv |-> None, pub |-> None]
  /\ calls = [c \in 1 .. MaxInitCalls |-> None]
  /\ mode = "conversation"
  /\ activeId = 1
  /\ store = [i \in Ids |-> <<>>]
  /\ queryCache = [i \in Ids |-> None]
  /\ polling = {}
  /\ keysReady = FALSE
  /\ loaded = {}
  /\ batches = {}
  /\ rendered = <<>>
  /\ directory = [u \in Users |-> None]
  /\ requests = {}
  /\ sends = <<>>
  /\ conversations = {}
  /\ otps = {}
  /\ handlers = <<>>
  /\ now = 0

\* A pair of user ids kept in the order it was given.
pairAsGiven(user1Id, user2Id) == <<user1Id, user2Id>>

\* createOrGetConversation, line 67: [user1Id, user2Id].sort().
sortedPair(user1Id, user2Id) == <<Min(user1Id, user2Id), Max(user1Id, user2Id)>>

\* A membership check that lets every signed-in user through.
isSignedIn(conversation, userId) == TRUE

\* The check of both message routes (part_006, lines 169 and 195), negated:
\* the user is user1 or user2 of the conversation.
isParticipant(conversation, userId) ==
  conversation.user1Id = userId \/ conversation.user2Id = userId

\* A write that puts the new row in the place of the newest one.
messageUpsert(rows, row) ==
  IF rows = <<>> THEN <<row>> ELSE [rows EXCEPT ![Len(rows)] = row]

\* prisma.message.create({ data }) (part_004, line 119): a row is added.
messageCreate(rows, row) == Append(rows, row)

\* The unique index of the conversation table on (user1Id, user2Id), which
\* the compound selector user1Id_user2Id of findUnique names (part_004, line
\* 71): the rows that stand in the way of a new row of this pair.  The
\* database schema that declares it is not among the sources.
user1Id_user2Id(pair) ==
  {c \in conversations : c.user1Id = pair[1] /\ c.user2Id = pair[2]}

\* POST /api/conversations up to the end of findUnique (part_006, lines
\* 91-106; part_004, lines 65-75): 401 without a session, 400 for oneself,
\* 404 for an unknown user, 201 with the existing conversation of the pair;
\* otherwise the handler goes on to create.
postConversation(caller, userId) ==
  /\ Len(handlers) < MaxHandlers
  /\ LET pair == sortedPair(caller, userId)
         existing == user1Id_user2Id(pair)
         h == [op |-> "postConversation", caller |-> caller, userId |-> userId,
               pair |-> pair, pc |-> "done", status |-> 0, result |-> 0]
     IN  handlers' = Append(handlers,
           IF caller = 0 THEN [h EXCEPT !.status = 401]
           ELSE IF userId = caller THEN [h EXCEPT !.status = 400]
           ELSE IF userId \notin Users THEN [h EXCEPT !.status = 404]
           ELSE IF existing # {}
                THEN [h EXCEPT !.status = 201,
                               !.result = (CHOOSE c \in existing : TRUE).id]
           ELSE [h EXCEPT !.pc = "create"])
  /\ UNCHANGED <<conversations, otps, now>>
  /\ UNCHANGED <<rng, cipherVars, identityVars, syncVars, wireVars>>

\* prisma.conversation.create (part_004, lines 77-79) of handler k: the row
\* is added and returned with 201; when a row of the pair exists by now, the
\* unique index user1Id_user2Id makes create reject and the request ends
\* with 500.
conversationCreate(k) ==
  /\ k \in DOMAIN handlers
  /\ handlers[k].op = "postConversation"
  /\ handlers[k].pc = "create"
  /\ Cardinality(conversations) < NumIds
  /\ LET pair == handlers[k].pair
         id == Cardinality(conversations) + 1
     IN  IF user1Id_user2Id(pair) # {}
         THEN /\ handlers' = [handlers EXCEPT ![k].pc = "done", ![k].status = 500]
              /\ UNCHANGED conversations
         ELSE /\ conversations' = conversations \cup
                   {[id |-> id, user1Id |-> pair[1], user2Id |-> pair[2]]}
              /\ handlers' = [handlers EXCEPT ![k].pc = "done", ![k].status = 201,
                                              ![k].result = id]
  /\ UNCHANGED <<otps, now>>
  /\ UNCHANGED <<rng, cipherVars, identityVars, syncVars, wireVars>>

\* GET /api/conversations/:id/messages (part_006, lines 162-179).
getConversationMessages(caller, id) ==
  /\ Len(handlers) < MaxHandlers
  /\ LET found == {c \in conversations : c.id = id}
         h == [op |-> "getMessages", caller |-> caller, id |-> id,
               pc |-> "done", status |-> 0, result |-> <<>>]
     IN  \E list \in getMessages(id, DEFAULT_LIMIT) :
           handlers' = Append(handlers,
             IF caller = 0 THEN [h EXCEPT !.status = 401]
             ELSE IF found = {} THEN [h EXCEPT !.status = 404]
             ELSE IF ~isParticipant(CHOOSE c \in found : TRUE, caller)
                  THEN [h EXCEPT !.status = 403]
             ELSE [h EXCEPT !.status = 200, !.result = list])
  /\ UNCHANGED <<conversations, otps, now>>
  /\ UNCHANGED <<rng, cipherVars, identityVars, syncVars, wireVars>>

\* POST /api/conversations/:id/messages (part_006, lines 182-215) with
\* createMessage (part_004, lines 107-120; the update of the conversation's
\* updatedAt is not kept): 401, 404, 403, 400 for a body that is not
\* {content, iv}, else the row is stored with the caller as senderId.
postConversationMessage(caller, id, body) ==
  /\ Len(handlers) < MaxHandlers
  /\ LET found == {c \in conversations : c.id = id}
         h == [op |-> "postMessage", caller |-> caller, id |-> id,
               pc |-> "done", status |-> 0, result |-> <<>>]
         status == IF caller = 0 THEN 401
                   ELSE IF found = {} THEN 404
                   ELSE IF ~isParticipant(CHOOSE c \in found : TRUE, caller) THEN 403
                   ELSE IF DOMAIN body # {"content", "iv"} THEN 400
                   ELSE 201
     IN  /\ handlers' = Append(handlers, [h EXCEPT !.status = status])
         /\ store' =
              IF status = 201
              THEN [store EXCEPT ![id] =
                      messageCreate(@, [id |-> TotalStored + 1, cid |-> id,
                                        senderId |-> caller,
                                        content |-> body.content, iv |-> body.iv,
                                        createdAt |-> NewestUpTo(NumIds) + 1,
                                        sent |-> <<97>>, damage |-> "none"])]
              ELSE store
  /\ UNCHANGED <<conversations, otps, now>>
  /\ UNCHANGED <<rng, cipherVars, identityVars, wireVars>>
  /\ UNCHANGED <<mode, activeId, queryCache, polling, keysReady, loaded, batches, rendered>>

NextConversations ==
  \/ \E caller, userId \in Users \cup {0} : postConversation(caller, userId)
  \/ \E k \in DOMAIN handlers : conversationCreate(k)
  \/ \E caller \in Users \cup {0}, id \in Ids : getConversationMessages(caller, id)
  \/ \E caller \in Users \cup {0}, id \in Ids,
        body \in {sendMessageBody(<<97>>, encryptMessage(<<97>>, SharedKeyFor(1, 2), 0)),
                  [content |-> btoa(JunkBytes(5))]} :
        postConversationMessage(caller, id, body)

SpecConversations == InitServer /\ [][NextConversations]_vars

\* C26: one conversation per pair.  After any interleaving of POST
\* /api/conversations handlers at most one conversation exists for an
\* unordered pair of users and none of a user with oneself; all handlers
\* that answer 201 for the pair {a, b}, whichever of the two called, return
\* that one conversation; a request naming the caller is answered 400.
C26_OneConversationPerPair ==
  /\ \A c1, c2 \in conversations :
        {c1.user1Id, c1.user2Id} = {c2.user1Id, c2.user2Id} => c1 = c2
  /\ \A c \in conversations : c.user1Id # c.user2Id
  /\ \A k \in DOMAIN handlers :
        handlers[k].op = "postConversation" =>
          /\ (handlers[k].caller # 0 /\ handlers[k].userId = handlers[k].caller)
               => handlers[k].status = 400
          /\ handlers[k].status = 201 =>
               \E c \in conversations :
                 /\ c.id = handlers[k].result
                 /\ {c.user1Id, c.user2Id} = {handlers[k].caller, handlers[k].userId}

\* The conversation of users 1 and 2 was created on the request of user 1,
\* user 2 asked for the conversation with user 1 and got the same one, and a
\* request of user 1 for a conversation with user 1 was refused.
C26_Witness ==
  /\ Cardinality(conversations) = 1
  /\ \E j, k, l \in DOMAIN handlers :
        /\ handlers[j].op = "postConversation" /\ handlers[j].status = 201
        /\ handlers[j].caller = 1 /\ handlers[j].userId = 2
        /\ handlers[k].op = "postConversation" /\ handlers[k].status = 201
        /\ handlers[k].caller = 2 /\ handlers[k].userId = 1
        /\ handlers[k].result = handlers[j].result
        /\ handlers[l].op = "postConversation" /\ handlers[l].status = 400

\* C27: conversation access control.  A request to list or to create the
\* messages of a conversation gets 401 without a session and 403 from a user
\* who is neither user1 nor user2 of the conversation; in both cases nothing
\* is listed and the store is unchanged.  A message is stored only on the
\* request of a participant, with that participant's session id as senderId,
\* so every stored message of a conversation was sent by one of its two
\* participants.
C27_ConversationAccessControl ==
  [][Len(handlers') > Len(handlers)
       /\ handlers'[Len(handlers')].op \in {"getMessages", "postMessage"}
     => LET h == handlers'[Len(handlers')]
            found == {c \in conversations : c.id = h.id}
            outsider == \E c \in found : h.caller \notin {c.user1Id, c.user2Id}
        IN  /\ h.caller = 0
                 => h.status = 401 /\ h.result = <<>> /\ store' = store
            /\ (h.caller # 0 /\ outsider)
                 => h.status = 403 /\ h.result = <<>> /\ store' = store
            /\ store' # store
                 => /\ h.op = "postMessage" /\ h.status = 201
                    /\ \E c \in found : h.caller \in {c.user1Id, c.user2Id}
                    /\ store'[h.id][Len(store'[h.id])].senderId = h.caller
            /\ \A id \in Ids : \A i \in DOMAIN store'[id] :
                 \E c \in conversations :
                   /\ c.id = id
                   /\ store'[id][i].senderId \in {c.user1Id, c.user2Id}]_vars

\* A participant of a conversation has stored a message in it, and a request
\* of a signed-in user who is not a participant was refused with 403.
C27_Witness ==
  \E c \in conversations, k \in DOMAIN handlers :
    /\ store[c.id] # <<>>
    /\ handlers[k].op \in {"getMessages", "postMessage"}
    /\ handlers[k].id = c.id
    /\ handlers[k].caller \in Users \ {c.user1Id, c.user2Id}
    /\ handlers[k].status = 403

\* C23: messages are append-only.  In every step of the server the list of
\* stored messages of each room or conversation keeps its rows, in place,
\* with their id, senderId, content and iv, and can only get longer.
C23_MessagesAppendOnly ==
  [][\A cid \in Ids :
       /\ Len(store'[cid]) >= Len(store[cid])
       /\ \A i \in DOMAIN store[cid] :
            /\ store'[cid][i].id = store[cid][i].id
            /\ store'[cid][i].senderId = store[cid][i].senderId
            /\ store'[cid][i].content = store[cid][i].content
            /\ store'[cid][i].iv = store[cid][i].iv]_vars

\* Two messages were stored in one conversation, one after the other.
C23_Witness ==
  \E cid \in Ids :
    /\ Len(store[cid]) = 2
    /\ store[cid][1].id # store[cid][2].id

(***************************************************************************)
(* Phone login: the one-time codes of server/otp (unnamed/part_005) behind *)
(* the routes of server/auth-routes.ts.  Neither route needs a session, so  *)
(* any number of requests for one phone can be in flight; every await of   *)
(* the code is a point where another handler can run.  The clock counts    *)
(* minutes.  An OTP row gets the index of the handler that created it as   *)
(* its id.                                                                 *)
(***************************************************************************)

\* sendOtp, line 37: Date.now() + 5 * 60 * 1000, in minutes.
OtpLifetime == 5

\* generateOtpCode (part_005, lines 7-9): a random six-digit number, of
\* which two stand for all.
generateOtpCode == {100000, 999999}

\* sendOtp up to the end of deleteMany (part_005, lines 35-40): the code and
\* the expiry are fixed, then every OTP of the phone is deleted.
sendOtp(phone, code) ==
  /\ Len(handlers) < MaxHandlers
  /\ handlers' = Append(handlers,
       [op |-> "sendOtp", phone |-> phone, code |-> code,
        expiresAt |-> now + OtpLifetime, pc |-> "create", status |-> 0])
  /\ otps' = {o \in otps : o.phone # phone}
  /\ UNCHANGED <<conversations, now>>
  /\ UNCHANGED <<rng, cipherVars, identityVars, syncVars, wireVars>>

\* The rest of sendOtp for handler k (part_005, lines 43-55): the new OTP is
\* created, the message is handed to the WhatsApp stub, which returns true,
\* and the route answers 200.
otpCreate(k) ==
  /\ k \in DOMAIN handlers
  /\ handlers[k].op = "sendOtp"
  /\ handlers[k].pc = "create"
  /\ otps' = otps \cup {[id |-> k, phone |-> handlers[k].phone,
                         code |-> handlers[k].code,
                         expiresAt |-> handlers[k].expiresAt,
                         verified |-> FALSE]}
  /\ handlers' = [handlers EXCEPT ![k].pc = "done", ![k].status = 200]
  /\ UNCHANGED <<conversations, now>>
  /\ UNCHANGED <<rng, cipherVars, identityVars, syncVars, wireVars>>

\* verifyOtp up to the end of findFirst (part_005, lines 61-72;
\* auth-routes.ts, lines 77-82): an unverified, unexpired OTP of the phone
\* with this code; without one the function returns false and the route
\* answers 400.  findFirst has no order: any matching row can be the one.
verifyOtp(phone, code) ==
  /\ Len(handlers) < MaxHandlers
  /\ LET matching == {o \in otps : /\ o.phone = phone
                                   /\ o.code = code
                                   /\ o.verified = FALSE
                                   /\ o.expiresAt > now}
         h == [op |-> "verifyOtp", phone |-> phone, code |-> code, at |-> now,
               otp |-> 0, pc |-> "done", status |-> 400, result |-> FALSE]
     IN  IF matching = {}
         THEN handlers' = Append(handlers, h)
         ELSE \E otp \in matching :
                handlers' = Append(handlers,
                  [h EXCEPT !.otp = otp.id, !.pc = "update", !.status = 0])
  /\ UNCHANGED <<conversations, otps, now>>
  /\ UNCHANGED <<rng, cipherVars, identityVars, syncVars, wireVars>>

\* The rest of verifyOtp for handler k (part_005, lines 75-80): the row found
\* is marked verified and the function returns true; the route logs the user
\* in.  When the row has been deleted since, update rejects and the request
\* ends with 500.
otpUpdate(k) ==
  /\ k \in DOMAIN handlers
  /\ handlers[k].op = "verifyOtp"
  /\ handlers[k].pc = "update"
  /\ IF \E o \in otps : o.id = handlers[k].otp
     THEN /\ otps' = {IF o.id = handlers[k].otp
                      THEN [o EXCEPT !.verified = TRUE] ELSE o : o \in otps}
          /\ handlers' = [handlers EXCEPT ![k].pc = "done", ![k].status = 200,
                                          ![k].result = TRUE]
     ELSE /\ otps' = otps
          /\ handlers' = [handlers EXCEPT ![k].pc = "done", ![k].status = 500]
  /\ UNCHANGED <<conversations, now>>
  /\ UNCHANGED <<rng, cipherVars, identityVars, syncVars, wireVars>>

\* A minute passes on the server: what Date.now() and new Date() return.
Tick ==
  /\ now < MaxClock
  /\ now' = now + 1
  /\ UNCHANGED <<conversations, otps, handlers>>
  /\ UNCHANGED <<rng, cipherVars, identityVars, syncVars, wireVars>>

NextOtp ==
  \/ \E phone \in 1 .. 2, code \in generateOtpCode : sendOtp(phone, code)
  \/ \E k \in DOMAIN handlers : otpCreate(k)
  \/ \E phone \in 1 .. 2, code \in generateOtpCode : verifyOtp(phone, code)
  \/ \E k \in DOMAIN handlers : otpUpdate(k)
  \/ Tick

SpecOtp == InitServer /\ [][NextOtp]_vars

\* C28: an OTP is used once.  No two verifyOtp calls return true for one OTP
\* row, whether they run one after the other or at the same time, and every
\* call that returns true found a row of its phone and code that had not
\* expired when it looked.
C28_OtpSingleUse ==
  \A j, k \in DOMAIN handlers :
    (handlers[k].op = "verifyOtp" /\ handlers[k].result)
      => /\ handlers[handlers[k].otp].phone = handlers[k].phone
         /\ handlers[handlers[k].otp].code = handlers[k].code
         /\ handlers[handlers[k].otp].expiresAt > handlers[k].at
         /\ (j # k /\ handlers[j].op = "verifyOtp" /\ handlers[j].result)
              => handlers[j].otp # handlers[k].otp

\* C29: the latest OTP is the only one.  Whenever every sendOtp for a phone
\* has completed, at most one OTP row exists for that phone.
C29_OnlyLatestOtp ==
  \A phone \in 1 .. 2 :
    (\A k \in DOMAIN handlers :
        (handlers[k].op = "sendOtp" /\ handlers[k].phone = phone)
          => handlers[k].pc = "done")
      => Cardinality({o \in otps : o.phone = phone}) <= 1
====
